---- MODULE Spec2Model ----
(***************************************************************************)
(* Model of garmin_mcp/nutrition.py: the module-level client handle, the   *)
(* meal resolver, the response curators and the registered tool handlers.  *)
(* One handler invocation is one action: the handlers are coroutines with  *)
(* no await between entry and return, so each runs to completion.          *)
(*                                                                         *)
(* Python values are tagged records.  Caller-supplied strings whose        *)
(* characters the code inspects (meal names, log_ids, foods_json) are      *)
(* sequences of one-character strings; texts the code builds are TLA+      *)
(* strings assembled with \o.                                              *)
(***************************************************************************)
EXTENDS Integers, Sequences, FiniteSets, TLC

VARIABLES
    garmin_client,  \* nutrition.garmin_client (module global)
    pc,             \* "idle": no invocation in progress; "done": a handler has returned
    handler,        \* name of the handler of the last invocation
    args,           \* its arguments
    calls,          \* collaborator operations it invoked, in order
    outcome,        \* how it ended: a returned text or an escaped exception
    document,       \* the value it serialised with json.dumps for that text, if any
    tasks           \* invocations in flight at once, each with its own frame

vars == <<garmin_client, pc, handler, args, calls, outcome, document, tasks>>

-----------------------------------------------------------------------------
(* Bounds of the model *)

MaxMealLen == 3      \* characters in a caller-supplied meal name
MaxDefs == 2         \* meal definitions returned by one fetch
MaxLogIdsLen == 4    \* characters in a log_ids argument
MaxJsonLen == 3      \* characters in a foods_json argument
MaxFoods == 1        \* elements in an already-parsed foods list
NumTasks == 2        \* handler invocations in flight at once

-----------------------------------------------------------------------------
(* Python values *)

None == [t |-> "none"]
StrV(s) == [t |-> "str", s |-> s]
IntV(n) == [t |-> "int", n |-> n]
FloatV(n) == [t |-> "float", f |-> n]      \* the float n.0
BoolV(b) == [t |-> "bool", b |-> b]
ListV(items) == [t |-> "list", items |-> items]
DictV(pairs) == [t |-> "dict", pairs |-> pairs]   \* pairs: <<key, value>> in insertion order

\* Python truthiness of a value (objects of the collaborator are truthy).
Truthy(v) ==
    IF v.t = "none" THEN FALSE
    ELSE IF v.t = "str" THEN v.s /= ""
    ELSE IF v.t = "int" THEN v.n /= 0
    ELSE IF v.t = "float" THEN v.f /= 0
    ELSE IF v.t = "bool" THEN v.b
    ELSE IF v.t = "list" THEN v.items /= <<>>
    ELSE IF v.t = "dict" THEN v.pairs /= <<>>
    ELSE TRUE

-----------------------------------------------------------------------------
(* Character-level strings *)

RECURSIVE StrOf(_)
\* The text of a character sequence.
StrOf(cs) == IF cs = <<>> THEN "" ELSE Head(cs) \o StrOf(Tail(cs))

\* All character sequences over alphabet A of length at most n.
SeqsUpTo(A, n) == UNION {[1..k -> A] : k \in 0..n}

IsSpace(c) == c = " "

\* str.upper() on one character.
UpperChar(c) ==
    IF c = "a" THEN "A" ELSE IF c = "b" THEN "B" ELSE c

\* str.upper()
Upper(cs) == [i \in 1..Len(cs) |-> UpperChar(cs[i])]

RECURSIVE LStrip(_)
LStrip(cs) ==
    IF cs /= <<>> /\ IsSpace(Head(cs)) THEN LStrip(Tail(cs)) ELSE cs

RECURSIVE RStrip(_)
RStrip(cs) ==
    IF cs /= <<>> /\ IsSpace(cs[Len(cs)]) THEN RStrip(SubSeq(cs, 1, Len(cs) - 1)) ELSE cs

\* str.strip()
Strip(cs) == RStrip(LStrip(cs))

RECURSIVE SplitFrom(_, _, _)
\* str.split(sep): the pieces between separators, empty pieces kept.
SplitFrom(cs, sep, cur) ==
    IF cs = <<>> THEN <<cur>>
    ELSE IF Head(cs) = sep THEN <<cur>> \o SplitFrom(Tail(cs), sep, <<>>)
    ELSE SplitFrom(Tail(cs), sep, Append(cur, Head(cs)))

Split(cs, sep) == SplitFrom(cs, sep, <<>>)

-----------------------------------------------------------------------------
(* json.dumps(value, indent=2) *)

DigitChar(d) == SubSeq(<<"0", "1", "2", "3", "4", "5", "6", "7", "8", "9">>, d + 1, d + 1)[1]

RECURSIVE Digits(_)
\* str(n) for n >= 0
Digits(n) == IF n < 10 THEN DigitChar(n) ELSE Digits(n \div 10) \o DigitChar(n % 10)

RECURSIVE Spaces(_)
Spaces(n) == IF n = 0 THEN "" ELSE " " \o Spaces(n - 1)

RECURSIVE DumpsAt(_, _), DumpItems(_, _), DumpPairs(_, _)
DumpsAt(v, level) ==
    IF v.t = "none" THEN "null"
    ELSE IF v.t = "str" THEN "\"" \o v.s \o "\""
    ELSE IF v.t = "int" THEN Digits(v.n)
    ELSE IF v.t = "float" THEN Digits(v.f) \o ".0"
    ELSE IF v.t = "bool" THEN (IF v.b THEN "true" ELSE "false")
    ELSE IF v.t = "list" THEN
        IF v.items = <<>> THEN "[]"
        ELSE "[\n" \o DumpItems(v.items, level + 1) \o "\n" \o Spaces(2 * level) \o "]"
    ELSE
        IF v.pairs = <<>> THEN "{}"
        ELSE "{\n" \o DumpPairs(v.pairs, level + 1) \o "\n" \o Spaces(2 * level) \o "}"

DumpItems(items, level) ==
    Spaces(2 * level) \o DumpsAt(Head(items), level)
        \o (IF Len(items) = 1 THEN "" ELSE ",\n" \o DumpItems(Tail(items), level))

DumpPairs(pairs, level) ==
    Spaces(2 * level) \o "\"" \o Head(pairs)[1] \o "\": " \o DumpsAt(Head(pairs)[2], level)
        \o (IF Len(pairs) = 1 THEN "" ELSE ",\n" \o DumpPairs(Tail(pairs), level))

Dumps(v) == DumpsAt(v, 0)

\* {k: v for k, v in curated.items() if v is not None}
DropNone(pairs) == SelectSeq(pairs, LAMBDA p : p[2] /= None)

-----------------------------------------------------------------------------
(* json.loads(text) on a character sequence.  The grammar is JSON's, over the *)
(* characters the model draws: arrays, the empty object (a member needs ':'), *)
(* strings without escapes, numbers of digits, and null / true / false.       *)

Digit(c) == c \in {"0", "1", "2", "3", "4", "5", "6", "7", "8", "9"}

DigitValue(c) ==
    CHOOSE d \in 0..9 : SubSeq(<<"0", "1", "2", "3", "4", "5", "6", "7", "8", "9">>, d + 1, d + 1)[1] = c

ParseFail == [ok |-> FALSE, val |-> None, next |-> 0]
Parsed(v, j) == [ok |-> TRUE, val |-> v, next |-> j]

RECURSIVE SkipWs(_, _)
\* index of the first non-whitespace character at or after i
SkipWs(cs, i) == IF i <= Len(cs) /\ IsSpace(cs[i]) THEN SkipWs(cs, i + 1) ELSE i

\* cs has the literal lit at index i
HasLiteral(cs, i, lit) == i + Len(lit) - 1 <= Len(cs) /\ SubSeq(cs, i, i + Len(lit) - 1) = lit

RECURSIVE ScanNumber(_, _, _)
\* digits from i on, acc the value so far
ScanNumber(cs, i, acc) ==
    IF i <= Len(cs) /\ Digit(cs[i]) THEN ScanNumber(cs, i + 1, 10 * acc + DigitValue(cs[i]))
    ELSE Parsed(IntV(acc), i)

RECURSIVE ScanString(_, _, _)
\* characters up to the closing quote, acc the text so far
ScanString(cs, i, acc) ==
    IF i > Len(cs) THEN ParseFail
    ELSE IF cs[i] = "\"" THEN Parsed(StrV(acc), i + 1)
    ELSE ScanString(cs, i + 1, acc \o cs[i])

RECURSIVE ParseValueAt(_, _), ParseItemsAt(_, _, _)
\* the value that starts at index i
ParseValueAt(cs, i) ==
    IF i > Len(cs) THEN ParseFail
    ELSE IF cs[i] = "[" THEN
        IF SkipWs(cs, i + 1) <= Len(cs) /\ cs[SkipWs(cs, i + 1)] = "]"
        THEN Parsed(ListV(<<>>), SkipWs(cs, i + 1) + 1)
        ELSE ParseItemsAt(cs, SkipWs(cs, i + 1), <<>>)
    ELSE IF cs[i] = "{" THEN
        IF SkipWs(cs, i + 1) <= Len(cs) /\ cs[SkipWs(cs, i + 1)] = "}"
        THEN Parsed(DictV(<<>>), SkipWs(cs, i + 1) + 1)
        ELSE ParseFail
    ELSE IF cs[i] = "\"" THEN ScanString(cs, i + 1, "")
    ELSE IF cs[i] = "0" THEN Parsed(IntV(0), i + 1)
    ELSE IF Digit(cs[i]) THEN ScanNumber(cs, i, 0)
    ELSE IF HasLiteral(cs, i, <<"n", "u", "l", "l">>) THEN Parsed(None, i + 4)
    ELSE IF HasLiteral(cs, i, <<"t", "r", "u", "e">>) THEN Parsed(BoolV(TRUE), i + 4)
    ELSE IF HasLiteral(cs, i, <<"f", "a", "l", "s", "e">>) THEN Parsed(BoolV(FALSE), i + 5)
    ELSE ParseFail

\* the elements of an array from index i on, up to and including its "]"
ParseItemsAt(cs, i, acc) ==
    LET v == ParseValueAt(cs, i)
        j == SkipWs(cs, v.next)
    IN  IF ~v.ok \/ j > Len(cs) THEN ParseFail
        ELSE IF cs[j] = "]" THEN Parsed(ListV(Append(acc, v.val)), j + 1)
        ELSE IF cs[j] = "," THEN ParseItemsAt(cs, SkipWs(cs, j + 1), Append(acc, v.val))
        ELSE ParseFail

\* The document of a text: one value, whitespace around it, nothing after it.
ParseJson(cs) ==
    LET v == ParseValueAt(cs, SkipWs(cs, 1))
    IN  IF v.ok /\ SkipWs(cs, v.next) = Len(cs) + 1 THEN v ELSE ParseFail

-----------------------------------------------------------------------------
(* Exceptions and results of evaluation *)

\* Direct base class of each exception class the model uses.
BaseOf(cls) ==
    IF cls = "JSONDecodeError" THEN "ValueError"
    ELSE IF cls \in {"ValueError", "AttributeError", "TypeError"} THEN "Exception"
    ELSE "BaseException"

RECURSIVE IsInstance(_, _)
\* isinstance(e, base) for an exception of class cls
IsInstance(cls, base) ==
    IF cls = base THEN TRUE
    ELSE IF cls = "BaseException" THEN FALSE
    ELSE IsInstance(BaseOf(cls), base)

Value(v) == [kind |-> "value", value |-> v]
Raise(cls, msg) == [kind |-> "raise", cls |-> cls, msg |-> msg]

\* What a handler invocation ends with.
Returned(text) == [kind |-> "return", text |-> text, cls |-> "", msg |-> ""]
Escaped(cls, msg) == [kind |-> "raise", text |-> "", cls |-> cls, msg |-> msg]

-----------------------------------------------------------------------------
(* The collaborator: garth.nutrition operations, as seen by this module *)

\* A response of a collaborator operation: it raises, or it returns ret.
Raises(cls, msg) == [raises |-> TRUE, cls |-> cls, msg |-> msg, ret |-> None]
Returns(ret) == [raises |-> FALSE, cls |-> "", msg |-> "", ret |-> ret]

\* Exceptions a collaborator operation raises (transport, remote validation,
\* a response body that is not JSON).
CollabErrors ==
    { Raises("Exception", "API down"),
      Raises("JSONDecodeError", "Expecting value: line 1 column 1 (char 0)") }

NoneTypeMsg == "'NoneType' object has no attribute 'garth'"

\* _garth(): garmin_client.garth
_garth(client) ==
    IF client = "None" THEN Raise("AttributeError", NoneTypeMsg) ELSE Value(client)

\* Mutant: an operation that raised is invoked a second time.
Invoke_RetryOnce(client, op, params, resp) ==
    IF _garth(client).kind = "raise"
    THEN [calls |-> <<>>, res |-> _garth(client)]
    ELSE [calls |-> IF resp.raises
                    THEN <<[op |-> op, params |-> params, resp |-> resp],
                           [op |-> op, params |-> params, resp |-> resp]>>
                    ELSE <<[op |-> op, params |-> params, resp |-> resp]>>,
          res |-> IF resp.raises THEN Raise(resp.cls, resp.msg) ELSE Value(resp.ret)]

\* A call Op(..., client=_garth()): the argument _garth() is evaluated first, so
\* with no client configured the operation is not invoked.
Invoke(client, op, params, resp) ==
    IF _garth(client).kind = "raise"
    THEN [calls |-> <<>>, res |-> _garth(client)]
    ELSE [calls |-> <<[op |-> op, params |-> params, resp |-> resp]>>,
          res |-> IF resp.raises THEN Raise(resp.cls, resp.msg) ELSE Value(resp.ret)]

\* json.loads(text): the parsed value, or json.JSONDecodeError
json_loads(cs) ==
    IF ParseJson(cs).ok THEN Value(ParseJson(cs).val)
    ELSE Raise("JSONDecodeError", "Expecting value: line 1 column 1 (char 0)")

-----------------------------------------------------------------------------
(* Meal resolver *)

\* A Meal of the collaborator.
Meal(id, name) == [t |-> "obj", meal_id |-> id, meal_name |-> name]

RECURSIVE ReprItems(_)
ReprItems(names) ==
    "'" \o StrOf(Head(names)) \o "'"
        \o (IF Len(names) = 1 THEN "" ELSE ", " \o ReprItems(Tail(names)))

\* str() of a list of str (names without quotes or backslashes)
ReprList(names) == IF names = <<>> THEN "[]" ELSE "[" \o ReprItems(names) \o "]"

UnknownMealMsg(meal, names) ==
    "Unknown meal '" \o StrOf(meal) \o "'. Available: " \o ReprList(names)

\* m.meal_name.upper() == upper
MealMatches(m, upper) == Upper(m.meal_name) = upper

RECURSIVE ScanMeals_Last(_, _)
\* Mutant: the loop does not return at the first match; the last match wins.
ScanMeals_Last(meals, upper) ==
    IF meals = <<>> THEN None
    ELSE IF ScanMeals_Last(Tail(meals), upper) /= None THEN ScanMeals_Last(Tail(meals), upper)
    ELSE IF MealMatches(Head(meals), upper) THEN IntV(Head(meals).meal_id)
    ELSE None

RECURSIVE ScanMeals(_, _)
\* for m in meals: if <match>: return m.meal_id     (None: loop fell through)
ScanMeals(meals, upper) ==
    IF meals = <<>> THEN None
    ELSE IF MealMatches(Head(meals), upper) THEN IntV(Head(meals).meal_id)
    ELSE ScanMeals(Tail(meals), upper)

\* Mutant: the names listed last to first.
AvailableNames_Reversed(meals) == [i \in 1..Len(meals) |-> meals[Len(meals) + 1 - i].meal_name]

\* available = [m.meal_name for m in meals]
AvailableNames(meals) == [i \in 1..Len(meals) |-> meals[i].meal_name]

\* Mutant: the name upper-cased but not trimmed.
NormalizeMeal_NoStrip(meal) == Upper(meal)

\* upper = meal.strip().upper()
NormalizeMeal(meal) == Upper(Strip(meal))

\* The scan and the error of _resolve_meal_id, given the fetched definitions.
ResolveIn(meals, meal) ==
    IF ScanMeals(meals, NormalizeMeal(meal)) /= None
    THEN Value(ScanMeals(meals, NormalizeMeal(meal)).n)
    ELSE Raise("ValueError", UnknownMealMsg(meal, AvailableNames(meals)))

\* Mutant: the definitions are fetched for the default day, whatever day is given.
_resolve_meal_id_DefaultDay(client, meal, day, resp) ==
    LET fetch == Invoke(client, "MealDefinitions.get", [day |-> None], resp)
    IN  IF fetch.res.kind = "raise" THEN fetch
        ELSE [calls |-> fetch.calls, res |-> ResolveIn(fetch.res.value.items, meal)]

\* Mutant: an unknown name falls back to meal_id 0 instead of raising.
_resolve_meal_id_Fallback(client, meal, day, resp) ==
    LET fetch == Invoke(client, "MealDefinitions.get", [day |-> day], resp)
    IN  IF fetch.res.kind = "raise" THEN fetch
        ELSE IF ResolveIn(fetch.res.value.items, meal).kind = "raise"
        THEN [calls |-> fetch.calls, res |-> Value(0)]
        ELSE [calls |-> fetch.calls, res |-> ResolveIn(fetch.res.value.items, meal)]

\* _resolve_meal_id(meal, day); resp is what MealDefinitions.get does.
_resolve_meal_id(client, meal, day, resp) ==
    LET fetch == Invoke(client, "MealDefinitions.get", [day |-> day], resp)
    IN  IF fetch.res.kind = "raise" THEN fetch
        ELSE [calls |-> fetch.calls, res |-> ResolveIn(fetch.res.value.items, meal)]

-----------------------------------------------------------------------------
(* Objects of the collaborator (garth.nutrition types); a field is a value or None *)

NutritionContent(sid, unit, units, cal, pro, fat, carbs, fiber, sugar) ==
    [t |-> "obj", serving_id |-> sid, serving_unit |-> unit, number_of_units |-> units,
     calories |-> cal, protein |-> pro, fat |-> fat, carbs |-> carbs,
     fiber |-> fiber, sugar |-> sugar]

\* food_type is a field of the response that no curator reads.
FoodMetaData(id, name, brand, source) ==
    [t |-> "obj", food_id |-> id, food_name |-> name, brand_name |-> brand, source |-> source,
     food_type |-> StrV("GENERIC")]

\* food_images likewise.
SearchResult(fm, ncs, fav) ==
    [t |-> "obj", food_meta_data |-> fm, nutrition_contents |-> ncs, is_favorite |-> fav,
     food_images |-> ListV(<<>>)]

\* log_timestamp likewise.
LoggedFood(id, fm, qty, nc) ==
    [t |-> "obj", log_id |-> id, food_meta_data |-> fm, serving_qty |-> qty,
     selected_nutrition_content |-> nc, log_timestamp |-> StrV("2024-01-15T07:30:00.000Z")]

MealDetail(meal, nc, foods) ==
    [t |-> "obj", meal |-> meal, meal_nutrition_content |-> nc, logged_foods |-> foods]

DailyNutritionLog(date, goals, content, details) ==
    [t |-> "obj", meal_date |-> date, daily_nutrition_goals |-> goals,
     daily_nutrition_content |-> content, meal_details |-> details]

-----------------------------------------------------------------------------
(* Response curators *)

_curate_nutrition_content(nc) ==
    IF nc = None THEN DictV(<<>>)
    ELSE DictV(DropNone(<<
            <<"serving_id", nc.serving_id>>,
            <<"serving_unit", nc.serving_unit>>,
            <<"number_of_units", nc.number_of_units>>,
            <<"calories", nc.calories>>,
            <<"protein", nc.protein>>,
            <<"fat", nc.fat>>,
            <<"carbs", nc.carbs>>,
            <<"fiber", nc.fiber>>,
            <<"sugar", nc.sugar>> >>))

\* Mutant: the None filter of the food metadata is missing.
_curate_food_meta_KeepNone(fm) ==
    IF fm = None THEN DictV(<<>>)
    ELSE DictV(<<
            <<"food_id", fm.food_id>>,
            <<"food_name", fm.food_name>>,
            <<"brand_name", fm.brand_name>>,
            <<"source", fm.source>> >>)

_curate_food_meta(fm) ==
    IF fm = None THEN DictV(<<>>)
    ELSE DictV(DropNone(<<
            <<"food_id", fm.food_id>>,
            <<"food_name", fm.food_name>>,
            <<"brand_name", fm.brand_name>>,
            <<"source", fm.source>> >>))

\* Mutant: the food images of the source are passed through.
_curate_search_result_WithImages(sr) ==
    DictV(_curate_food_meta(sr.food_meta_data).pairs
        \o (IF Truthy(sr.nutrition_contents)
            THEN << <<"servings", ListV([i \in 1..Len(sr.nutrition_contents.items) |->
                        _curate_nutrition_content(sr.nutrition_contents.items[i])])>> >>
            ELSE <<>>)
        \o (IF sr.is_favorite /= None THEN << <<"is_favorite", sr.is_favorite>> >> ELSE <<>>)
        \o << <<"food_images", sr.food_images>> >>)

_curate_search_result(sr) ==
    DictV(_curate_food_meta(sr.food_meta_data).pairs
        \o (IF Truthy(sr.nutrition_contents)
            THEN << <<"servings", ListV([i \in 1..Len(sr.nutrition_contents.items) |->
                        _curate_nutrition_content(sr.nutrition_contents.items[i])])>> >>
            ELSE <<>>)
        \o (IF sr.is_favorite /= None THEN << <<"is_favorite", sr.is_favorite>> >> ELSE <<>>))

_curate_logged_food(lf) ==
    DictV((IF Truthy(lf.log_id) THEN << <<"log_id", lf.log_id>> >> ELSE <<>>)
        \o _curate_food_meta(lf.food_meta_data).pairs
        \o (IF lf.serving_qty /= None THEN << <<"serving_qty", lf.serving_qty>> >> ELSE <<>>)
        \o (IF Truthy(lf.selected_nutrition_content)
            THEN << <<"nutrition", _curate_nutrition_content(lf.selected_nutrition_content)>> >>
            ELSE <<>>))

\* Mutant: the foods key is set whenever the source has a logged-food list.
CurateMealDetail_FoodsWhenListed(md) ==
    DictV(<< <<"meal_name", md.meal.meal_name>>, <<"meal_id", md.meal.meal_id>> >>
        \o (IF Truthy(md.meal_nutrition_content)
            THEN << <<"totals", _curate_nutrition_content(md.meal_nutrition_content)>> >>
            ELSE <<>>)
        \o (IF md.logged_foods /= None
            THEN << <<"foods", ListV([i \in 1..Len(md.logged_foods.items) |->
                        _curate_logged_food(md.logged_foods.items[i])])>> >>
            ELSE <<>>))

\* One element of meals in _curate_daily_log.
CurateMealDetail(md) ==
    DictV(<< <<"meal_name", md.meal.meal_name>>, <<"meal_id", md.meal.meal_id>> >>
        \o (IF Truthy(md.meal_nutrition_content)
            THEN << <<"totals", _curate_nutrition_content(md.meal_nutrition_content)>> >>
            ELSE <<>>)
        \o (IF Truthy(md.logged_foods)
            THEN << <<"foods", ListV([i \in 1..Len(md.logged_foods.items) |->
                        _curate_logged_food(md.logged_foods.items[i])])>> >>
            ELSE <<>>))

_curate_daily_log(log) ==
    LET goals ==
            IF Truthy(log.daily_nutrition_goals)
            THEN DictV(DropNone(<<
                    <<"calories", log.daily_nutrition_goals.calories>>,
                    <<"protein", log.daily_nutrition_goals.protein>>,
                    <<"fat", log.daily_nutrition_goals.fat>>,
                    <<"carbs", log.daily_nutrition_goals.carbs>> >>))
            ELSE DictV(<<>>)
        totals ==
            IF Truthy(log.daily_nutrition_content)
            THEN DictV(DropNone(<<
                    <<"calories", log.daily_nutrition_content.calories>>,
                    <<"protein", log.daily_nutrition_content.protein>>,
                    <<"fat", log.daily_nutrition_content.fat>>,
                    <<"carbs", log.daily_nutrition_content.carbs>> >>))
            ELSE DictV(<<>>)
        meals ==
            ListV([i \in 1..Len(log.meal_details.items) |->
                CurateMealDetail(log.meal_details.items[i])])
    IN  DictV(DropNone(<<
            <<"date", log.meal_date>>,
            <<"daily_goals", goals>>,
            <<"daily_totals", totals>>,
            <<"meals", meals>> >>))

-----------------------------------------------------------------------------
(* Handler plumbing *)

\* A computation that invoked nothing and has the value v.
Pure(v) == [calls |-> <<>>, res |-> Value(v)]

\* No value was serialised.
NoDoc == [t |-> "absent"]

\* The value of a return statement: return json.dumps(doc, indent=2), or
\* return "<text>".
Json(doc) == [text |-> Dumps(doc), doc |-> doc]
Plain(text) == [text |-> text, doc |-> NoDoc]

\* Statement sequencing: Rest runs on the value of first unless first raised.
AndThen(first, Rest(_)) ==
    IF first.res.kind = "raise" THEN first
    ELSE LET rest == Rest(first.res.value)
         IN  [calls |-> first.calls \o rest.calls, res |-> rest.res]

\* Mutant: except ValueError in place of except Exception.
Catch_OnlyValueError(doing, body) ==
    [calls |-> body.calls,
     doc |-> IF body.res.kind = "value" THEN body.res.value.doc ELSE NoDoc,
     out |-> IF body.res.kind = "value" THEN Returned(body.res.value.text)
             ELSE IF IsInstance(body.res.cls, "ValueError")
             THEN Returned("Error " \o doing \o ": " \o body.res.msg)
             ELSE Escaped(body.res.cls, body.res.msg)]

\* Mutant: the error text without the handler's phrase.
Catch_NoPhrase(doing, body) ==
    [calls |-> body.calls,
     doc |-> IF body.res.kind = "value" THEN body.res.value.doc ELSE NoDoc,
     out |-> IF body.res.kind = "value" THEN Returned(body.res.value.text)
             ELSE IF IsInstance(body.res.cls, "Exception")
             THEN Returned("Error: " \o body.res.msg)
             ELSE Escaped(body.res.cls, body.res.msg)]

\* try: <body> / except Exception as e: return f"Error <doing>: {e}"
Catch(doing, body) ==
    [calls |-> body.calls,
     doc |-> IF body.res.kind = "value" THEN body.res.value.doc ELSE NoDoc,
     out |-> IF body.res.kind = "value" THEN Returned(body.res.value.text)
             ELSE IF IsInstance(body.res.cls, "Exception")
             THEN Returned("Error " \o doing \o ": " \o body.res.msg)
             ELSE Escaped(body.res.cls, body.res.msg)]

\* str(x) of an identifier given as str or int
PyStr(x) == IF x.t = "int" THEN Digits(x.n) ELSE x.s

\* Mutant: the identifier is handed on as given, without str().
IdStr_AsGiven(x) == x

\* food_id = str(food_id): the identifier as the str handed to the collaborator
IdStr(x) == StrV(PyStr(x))

\* [f(x) for x in items]
MapList(F(_), items) == ListV([i \in 1..Len(items.items) |-> F(items.items[i])])

\* Mutant: an element whose curation is empty is left out.
CurateResults_SkipEmpty(items) ==
    ListV(SelectSeq([i \in 1..Len(items.items) |-> _curate_search_result(items.items[i])],
                    LAMBDA d : d.pairs /= <<>>))

\* [_curate_search_result(r) for r in items]
CurateResults(items) == MapList(_curate_search_result, items)

-----------------------------------------------------------------------------
(* Inputs and collaborator responses the model draws from *)

Day == StrV("2024-01-15")
Dates == {Day}
OptionalDates == {Day, None}

\* An identifier as the caller may give it: str or int
IdValues == {StrV("5367"), IntV(5367)}

NcFull ==
    NutritionContent(StrV("54047"), StrV("cup"), FloatV(1), FloatV(150), FloatV(5),
                     FloatV(3), FloatV(27), None, None)
NcSparse == NutritionContent(None, None, None, FloatV(0), None, None, None, None, None)
MacroFull ==
    NutritionContent(None, None, None, FloatV(2200), FloatV(120), FloatV(73), FloatV(275), None, None)

FmOatmeal == FoodMetaData(StrV("5367"), StrV("Oatmeal"), None, StrV("FATSECRET"))
FmBranded == FoodMetaData(StrV("9999"), StrV("Bar"), StrV("Acme"), StrV("GARMIN"))

SrOatmeal == SearchResult(FmOatmeal, ListV(<<NcFull>>), BoolV(FALSE))
SrBare == SearchResult(FmBranded, ListV(<<>>), None)
SrEmpty == SearchResult(None, None, None)

SearchResultLists ==
    {ListV(<<>>), ListV(<<SrOatmeal>>), ListV(<<SrBare, SrOatmeal>>), ListV(<<SrEmpty>>)}

\* The meal of a meal detail in a daily log
LogMeal(id, name) == [t |-> "obj", meal_id |-> id, meal_name |-> name]

LfOatmeal == LoggedFood(StrV("abc123"), FmOatmeal, FloatV(1), NcFull)
LfBare == LoggedFood(None, None, None, None)
\* A logged food whose fields are set to values that are falsy and not None.
LfZero ==
    LoggedFood(IntV(0), FoodMetaData(StrV(""), StrV(""), StrV(""), StrV("")), FloatV(0),
               NutritionContent(StrV(""), StrV(""), FloatV(0), FloatV(0), FloatV(0), FloatV(0),
                                FloatV(0), FloatV(0), FloatV(0)))

MdBreakfast ==
    MealDetail(LogMeal(IntV(645041), StrV("Breakfast")), NcFull,
               ListV(<<LfOatmeal, LfBare, LfZero>>))
MdLunch == MealDetail(LogMeal(IntV(645042), StrV("Lunch")), NcSparse, ListV(<<>>))
MdBare == MealDetail(LogMeal(None, None), None, None)

DailyLogs ==
    { DailyNutritionLog(Day, MacroFull, NcSparse, ListV(<<MdBreakfast, MdLunch>>)),
      DailyNutritionLog(None, None, None, ListV(<<>>)),
      DailyNutritionLog(Day, NcSparse, None, ListV(<<MdBare>>)) }

NutritionSettings(goal, macros) ==
    [t |-> "obj", calorie_goal |-> goal, weight_change_type |-> StrV("MAINTAIN"),
     auto_calorie_adjustment |-> BoolV(TRUE), region_code |-> StrV("DE"),
     language_code |-> None, starting_weight |-> IntV(72000),
     target_weight_goal |-> None, target_date |-> None, macro_goals |-> macros]

SettingsPool ==
    {NutritionSettings(IntV(2200), MacroFull), NutritionSettings(None, None),
     NutritionSettings(IntV(0), NcSparse)}

SearchResults(results, more) == [t |-> "obj", results |-> results, more_data_available |-> more]
RecentFoods(frequent, recent) == [t |-> "obj", frequent_foods |-> frequent, recent_foods |-> recent]
FavoriteFoodList(items, more) == [t |-> "obj", items |-> items, has_more |-> more]
CustomFoodList(items, more) == [t |-> "obj", items |-> items, more_data_available |-> more]
CustomMealList(items, more) == [t |-> "obj", items |-> items, has_more |-> more]
CustomMealDetail(id, name, foods, summary) ==
    [t |-> "obj", custom_meal_id |-> id, name |-> name, foods |-> foods, content_summary |-> summary]

MoreFlags == {BoolV(TRUE), None}

OrErrors(rets) == {Returns(r) : r \in rets} \cup CollabErrors

DailyLogResponses == OrErrors(DailyLogs)
\* An operation with no result (remove, add favorite, delete)
VoidResponses == OrErrors({None})

-----------------------------------------------------------------------------
(* Read tools *)

get_nutrition_log_run(client, date, resp) ==
    Catch("getting nutrition log",
        AndThen(Invoke(client, "DailyNutritionLog.get", [day |-> date], resp),
            LAMBDA log : Pure(Json(_curate_daily_log(log)))))

\* Mutant: the summary is the full curated log.
SummaryOf_FullLog(log) == _curate_daily_log(log)

\* The body of get_nutrition_summary after the fetch.
SummaryOf(log) ==
    LET goals ==
            IF Truthy(log.daily_nutrition_goals)
            THEN DictV(DropNone(<<
                    <<"calories", log.daily_nutrition_goals.calories>>,
                    <<"protein", log.daily_nutrition_goals.protein>>,
                    <<"fat", log.daily_nutrition_goals.fat>>,
                    <<"carbs", log.daily_nutrition_goals.carbs>> >>))
            ELSE DictV(<<>>)
        totals ==
            IF Truthy(log.daily_nutrition_content)
            THEN DictV(DropNone(<<
                    <<"calories", log.daily_nutrition_content.calories>>,
                    <<"protein", log.daily_nutrition_content.protein>>,
                    <<"fat", log.daily_nutrition_content.fat>>,
                    <<"carbs", log.daily_nutrition_content.carbs>> >>))
            ELSE DictV(<<>>)
    IN  DictV(<< <<"date", log.meal_date>>, <<"totals", totals>>, <<"goals", goals>> >>)

get_nutrition_summary_run(client, date, resp) ==
    Catch("getting nutrition summary",
        AndThen(Invoke(client, "DailyNutritionLog.get", [day |-> date], resp),
            LAMBDA log : Pure(Json(SummaryOf(log)))))

\* The body of get_nutrition_settings after the fetch.
SettingsOf(s) ==
    DictV(DropNone(<<
            <<"calorie_goal", s.calorie_goal>>,
            <<"weight_change_type", s.weight_change_type>>,
            <<"auto_calorie_adjustment", s.auto_calorie_adjustment>>,
            <<"region_code", s.region_code>>,
            <<"language_code", s.language_code>>,
            <<"starting_weight_grams", s.starting_weight>>,
            <<"target_weight_goal_grams", s.target_weight_goal>>,
            <<"target_date", s.target_date>> >>
        \o (IF Truthy(s.macro_goals)
            THEN << <<"macro_goals", DictV(<<
                        <<"calories", s.macro_goals.calories>>,
                        <<"protein", s.macro_goals.protein>>,
                        <<"fat", s.macro_goals.fat>>,
                        <<"carbs", s.macro_goals.carbs>> >>)>> >>
            ELSE <<>>)))

get_nutrition_settings_run(client, date, resp) ==
    Catch("getting nutrition settings",
        AndThen(Invoke(client, "NutritionSettings.get", [day |-> date], resp),
            LAMBDA s : Pure(Json(SettingsOf(s)))))

search_foods_run(client, query, start, limit, resp) ==
    Catch("searching foods",
        AndThen(Invoke(client, "FoodSearch.search",
                       [query |-> query, start |-> start, limit |-> limit], resp),
            LAMBDA results : Pure(Json(DictV(<<
                <<"query", query>>,
                <<"results", CurateResults(results.results)>>,
                <<"has_more", results.more_data_available>> >>)))))

\* get_recent_foods from the call of FoodSearch.recent on, meal_id resolved.
get_recent_foods_main(client, meal, date, meal_id, r2) ==
    AndThen(Invoke(client, "FoodSearch.recent", [meal_id |-> meal_id, day |-> date], r2),
        LAMBDA recent : Pure(Json(DictV(<<
            <<"meal", StrV(StrOf(Upper(meal)))>>,
            <<"frequent_foods", CurateResults(recent.frequent_foods)>>,
            <<"recent_foods", CurateResults(recent.recent_foods)>> >>))))

get_recent_foods_run(client, meal, date, r1, r2) ==
    Catch("getting recent foods",
        AndThen(_resolve_meal_id(client, meal, date, r1),
            LAMBDA meal_id : get_recent_foods_main(client, meal, date, meal_id, r2)))

list_favorite_foods_run(client, query, start, limit, resp) ==
    Catch("listing favorites",
        AndThen(Invoke(client, "FavoriteFoods.list",
                       [query |-> query, start |-> start, limit |-> limit], resp),
            LAMBDA favs : Pure(Json(DictV(<<
                <<"favorites", CurateResults(favs.items)>>,
                <<"has_more", favs.has_more>> >>)))))

list_custom_foods_run(client, query, start, limit, resp) ==
    Catch("listing custom foods",
        AndThen(Invoke(client, "CustomFood.list",
                       [query |-> query, start |-> start, limit |-> limit], resp),
            LAMBDA foods : Pure(Json(DictV(<<
                <<"custom_foods", CurateResults(foods.items)>>,
                <<"has_more", foods.more_data_available>> >>)))))

-----------------------------------------------------------------------------
(* Write tools *)

\* Mutant: log_food answers with a status document, as the favorite handlers do.
log_food_main_StatusOnly(client, date, meal_id, food_id, serving_id, source, serving_qty, r2) ==
    AndThen(Invoke(client, "FoodLog.add",
                   [day |-> date, meal_id |-> meal_id,
                    food_id |-> IdStr(food_id),
                    serving_id |-> IdStr(serving_id),
                    source |-> source, serving_qty |-> serving_qty], r2),
        LAMBDA log : Pure(Json(DictV(<< <<"status", StrV("success")>> >>))))

\* log_food from the call of FoodLog.add on (ids through str()), meal_id resolved.
log_food_main(client, date, meal_id, food_id, serving_id, source, serving_qty, r2) ==
    AndThen(Invoke(client, "FoodLog.add",
                   [day |-> date, meal_id |-> meal_id,
                    food_id |-> IdStr(food_id),
                    serving_id |-> IdStr(serving_id),
                    source |-> source, serving_qty |-> serving_qty], r2),
        LAMBDA log : Pure(Json(_curate_daily_log(log))))

log_food_run(client, date, meal, food_id, serving_id, source, serving_qty, r1, r2) ==
    Catch("logging food",
        AndThen(_resolve_meal_id(client, meal, date, r1),
            LAMBDA meal_id :
                log_food_main(client, date, meal_id, food_id, serving_id, source,
                              serving_qty, r2)))

quick_add_nutrition_run(client, date, meal, name, calories, protein, fat, carbs, r1, r2) ==
    Catch("quick-adding nutrition",
        AndThen(_resolve_meal_id(client, meal, date, r1),
            LAMBDA meal_id :
                AndThen(Invoke(client, "QuickAdd.add",
                               [day |-> date, meal_id |-> meal_id, name |-> name,
                                calories |-> calories, protein |-> protein,
                                fat |-> fat, carbs |-> carbs], r2),
                    LAMBDA log : Pure(Json(_curate_daily_log(log))))))

update_food_log_run(client, date, log_id, meal, food_id, serving_id, source, serving_qty, r1, r2) ==
    Catch("updating food log",
        AndThen(_resolve_meal_id(client, meal, date, r1),
            LAMBDA meal_id :
                AndThen(Invoke(client, "FoodLog.update",
                               [day |-> date, log_id |-> IdStr(log_id),
                                meal_id |-> meal_id,
                                food_id |-> IdStr(food_id),
                                serving_id |-> IdStr(serving_id),
                                source |-> source, serving_qty |-> serving_qty], r2),
                    LAMBDA log : Pure(Json(_curate_daily_log(log))))))

\* Mutant: blank entries are kept.
ParseLogIds_KeepBlank(log_ids) ==
    LET pieces == Split(log_ids, ",")
    IN  [i \in 1..Len(pieces) |-> Strip(pieces[i])]

\* Mutant: entries are filtered but not trimmed.
ParseLogIds_NoTrim(log_ids) ==
    SelectSeq(Split(log_ids, ","), LAMBDA lid : Strip(lid) /= <<>>)

\* ids = [lid.strip() for lid in log_ids.split(",") if lid.strip()]
ParseLogIds(log_ids) ==
    LET pieces == Split(log_ids, ",")
        stripped == [i \in 1..Len(pieces) |-> Strip(pieces[i])]
    IN  SelectSeq(stripped, LAMBDA lid : lid /= <<>>)

\* The ids as the list of str handed to the collaborator
IdList(ids) == ListV([i \in 1..Len(ids) |-> StrV(StrOf(ids[i]))])

\* Mutant: the client is looked up before the ids are examined.
remove_food_log_run_ClientFirst(client, date, log_ids, resp) ==
    Catch("removing food log entries",
        IF _garth(client).kind = "raise" THEN [calls |-> <<>>, res |-> _garth(client)]
        ELSE IF ParseLogIds(log_ids) = <<>> THEN Pure(Plain("Error: no log_ids provided"))
        ELSE AndThen(Invoke(client, "FoodLog.remove",
                            [day |-> date, log_ids |-> IdList(ParseLogIds(log_ids))], resp),
                LAMBDA none : Pure(Json(DictV(<<
                    <<"status", StrV("success")>>,
                    <<"date", date>>,
                    <<"removed_count", IntV(Len(ParseLogIds(log_ids)))>> >>)))))

\* Mutant: FoodLog.remove is invoked once per id.
remove_food_log_run_OnePerId(client, date, log_ids, resp) ==
    Catch("removing food log entries",
        IF ParseLogIds(log_ids) = <<>> THEN Pure(Plain("Error: no log_ids provided"))
        ELSE IF _garth(client).kind = "raise" THEN [calls |-> <<>>, res |-> _garth(client)]
        ELSE IF resp.raises
        THEN Invoke(client, "FoodLog.remove",
                    [day |-> date, log_ids |-> IdList(<<ParseLogIds(log_ids)[1]>>)], resp)
        ELSE [calls |-> [i \in 1..Len(ParseLogIds(log_ids)) |->
                            [op |-> "FoodLog.remove",
                             params |-> [day |-> date,
                                         log_ids |-> IdList(<<ParseLogIds(log_ids)[i]>>)],
                             resp |-> resp]],
              res |-> Value(Json(DictV(<<
                    <<"status", StrV("success")>>,
                    <<"date", date>>,
                    <<"removed_count", IntV(Len(ParseLogIds(log_ids)))>> >>)))])

remove_food_log_run(client, date, log_ids, resp) ==
    Catch("removing food log entries",
        IF ParseLogIds(log_ids) = <<>> THEN Pure(Plain("Error: no log_ids provided"))
        ELSE AndThen(Invoke(client, "FoodLog.remove",
                            [day |-> date, log_ids |-> IdList(ParseLogIds(log_ids))], resp),
                LAMBDA none : Pure(Json(DictV(<<
                    <<"status", StrV("success")>>,
                    <<"date", date>>,
                    <<"removed_count", IntV(Len(ParseLogIds(log_ids)))>> >>)))))

\* json.dumps({"status": "success", "food_id": food_id}, indent=2)
SuccessFor(food_id) ==
    Json(DictV(<< <<"status", StrV("success")>>, <<"food_id", food_id>> >>))

add_favorite_food_run(client, food_id, serving_id, source, serving_qty, resp) ==
    Catch("adding favorite",
        AndThen(Invoke(client, "FavoriteFoods.add",
                       [food_id |-> IdStr(food_id),
                        serving_id |-> IdStr(serving_id),
                        source |-> source, serving_qty |-> serving_qty], resp),
            LAMBDA none : Pure(SuccessFor(IdStr(food_id)))))

remove_favorite_food_run(client, food_id, resp) ==
    Catch("removing favorite",
        AndThen(Invoke(client, "FavoriteFoods.remove", [food_id |-> IdStr(food_id)], resp),
            LAMBDA none : Pure(SuccessFor(IdStr(food_id)))))

create_custom_food_run(client, food_name, serving_unit, number_of_units, calories, protein, resp) ==
    Catch("creating custom food",
        AndThen(Invoke(client, "CustomFood.create",
                       [food_name |-> food_name, serving_unit |-> serving_unit,
                        number_of_units |-> number_of_units, calories |-> calories,
                        protein |-> protein, fat |-> None, carbs |-> None,
                        fiber |-> None, sugar |-> None], resp),
            LAMBDA result : Pure(Json(_curate_search_result(result)))))

delete_custom_food_run(client, food_id, resp) ==
    Catch("deleting custom food",
        AndThen(Invoke(client, "CustomFood.delete", [food_id |-> IdStr(food_id)], resp),
            LAMBDA none : Pure(SuccessFor(IdStr(food_id)))))

-----------------------------------------------------------------------------
(* Custom meal tools *)

list_custom_meals_run(client, query, start, limit, resp) ==
    Catch("listing custom meals",
        AndThen(Invoke(client, "CustomMeal.list",
                       [query |-> query, start |-> start, limit |-> limit], resp),
            LAMBDA meals : Pure(Json(DictV(<<
                <<"custom_meals", CurateResults(meals.items)>>,
                <<"has_more", meals.has_more>> >>)))))

\* A caller-supplied text whose characters the code reads.
Chars(cs) == [t |-> "chars", cs |-> cs]

\* The curated result of create_custom_meal.
CustomMealOf(result) ==
    DictV(<< <<"custom_meal_id", result.custom_meal_id>>,
             <<"name", result.name>>,
             <<"food_count", IntV(Len(result.foods.items))>> >>
        \o (IF Truthy(result.content_summary)
            THEN << <<"totals", _curate_nutrition_content(result.content_summary)>> >>
            ELSE <<>>))

\* Mutant: no except json.JSONDecodeError clause.
CatchCustomMeal_Generic(body) == Catch("creating custom meal", body)

\* try: ... / except json.JSONDecodeError: ... / except Exception as e: ...
CatchCustomMeal(body) ==
    IF body.res.kind = "raise" /\ IsInstance(body.res.cls, "JSONDecodeError")
    THEN [calls |-> body.calls, doc |-> NoDoc,
          out |-> Returned("Error: foods_json is not valid JSON")]
    ELSE Catch("creating custom meal", body)

\* Mutant: the parsed value is used without the isinstance check.
FoodsOf_NoArrayCheck(foods_json) ==
    IF foods_json.t = "list" THEN Value([early |-> FALSE, foods |-> foods_json, text |-> ""])
    ELSE IF json_loads(foods_json.cs).kind = "raise" THEN json_loads(foods_json.cs)
    ELSE Value([early |-> FALSE, foods |-> json_loads(foods_json.cs).value, text |-> ""])

\* Mutant: no isinstance(foods_json, list) branch; json.loads is given the list.
FoodsOf_TextOnly(foods_json) ==
    IF foods_json.t = "list"
    THEN Raise("TypeError", "the JSON object must be str, bytes or bytearray, not list")
    ELSE IF json_loads(foods_json.cs).kind = "raise" THEN json_loads(foods_json.cs)
    ELSE IF json_loads(foods_json.cs).value.t /= "list"
    THEN Value([early |-> TRUE, foods |-> None, text |-> "Error: foods_json must be a JSON array"])
    ELSE Value([early |-> FALSE, foods |-> json_loads(foods_json.cs).value, text |-> ""])

\* The statements of create_custom_meal that produce foods: a list, or an early
\* return (early) with a text, or json.loads raising.
FoodsOf(foods_json) ==
    IF foods_json.t = "list" THEN Value([early |-> FALSE, foods |-> foods_json, text |-> ""])
    ELSE IF json_loads(foods_json.cs).kind = "raise" THEN json_loads(foods_json.cs)
    ELSE IF json_loads(foods_json.cs).value.t /= "list"
    THEN Value([early |-> TRUE, foods |-> None, text |-> "Error: foods_json must be a JSON array"])
    ELSE Value([early |-> FALSE, foods |-> json_loads(foods_json.cs).value, text |-> ""])

create_custom_meal_run(client, name, foods_json, resp) ==
    CatchCustomMeal(
        AndThen([calls |-> <<>>, res |-> FoodsOf(foods_json)],
            LAMBDA f :
                IF f.early THEN Pure(Plain(f.text))
                ELSE AndThen(Invoke(client, "CustomMeal.create",
                                    [name |-> name, foods |-> f.foods], resp),
                        LAMBDA result : Pure(Json(CustomMealOf(result))))))

-----------------------------------------------------------------------------
(* Caller inputs whose characters the code reads *)

MealAlphabet == {"a", "B", " "}
MealInputs == SeqsUpTo(MealAlphabet, MaxMealLen)

\* Meal definitions the collaborator may return: two names equal up to case, and
\* one with a trailing space.
DefPool == {Meal(645041, <<"A", "b">>), Meal(645042, <<"A", "B">>), Meal(645043, <<"b", " ">>)}
DefLists == {ListV(defs) : defs \in SeqsUpTo(DefPool, MaxDefs)}
MealDefResponses == OrErrors(DefLists)

LogIdAlphabet == {"a", "b", ",", " "}
LogIdsInputs == SeqsUpTo(LogIdAlphabet, MaxLogIdsLen)

JsonAlphabet == {"[", "]", ",", "1", "\"", "{", "}", " "}
JsonWords ==
    { <<"n", "u", "l", "l">>, <<"t", "r", "u", "e">>, <<"f", "a", "l", "s", "e">>,
      <<"n", "o", "t", " ", "j", "s", "o", "n">> }
\* Elements of an already-parsed foods list: a food item as the search returns
\* it, and values a short JSON text can spell.
FoodItems == {DictV(<< <<"foodId", StrV("5367")>> >>), DictV(<<>>), IntV(1)}
\* The foods_json texts the caller may give.
FoodsJsonTexts == SeqsUpTo(JsonAlphabet, MaxJsonLen) \cup JsonWords

FoodsJsonInputs ==
    {Chars(cs) : cs \in FoodsJsonTexts}
        \cup {ListV(items) : items \in SeqsUpTo(FoodItems, MaxFoods)}

RecentFoodsResponses ==
    OrErrors({RecentFoods(ListV(<<SrOatmeal>>), ListV(<<SrBare, SrEmpty>>)),
              RecentFoods(ListV(<<>>), ListV(<<>>))})

CustomMealResponses ==
    OrErrors({CustomMealDetail(IntV(12345), StrV("Test Meal"), ListV(<<SrOatmeal>>), NcSparse),
              CustomMealDetail(None, None, ListV(<<>>), None)})

\* The responses drawn for an operation that runs only after the meal resolved.
AfterResolve(client, meal, date, r1, responses) ==
    IF _resolve_meal_id(client, meal, date, r1).res.kind = "value" THEN responses
    ELSE {Returns(None)}

-----------------------------------------------------------------------------
(* State machine *)

NoOutcome == [kind |-> "none", text |-> "", cls |-> "", msg |-> ""]

\* The invocations that may be in flight at once.
Tasks == 1..NumTasks

\* The frame of an invocation: where it is (pc), its arguments, the local
\* meal_id, the operations it invoked and what it returned.
IdleTask ==
    [pc |-> "idle", handler |-> "none", args |-> [none |-> TRUE], meal_id |-> 0,
     calls |-> <<>>, out |-> NoOutcome, doc |-> NoDoc]

Init ==
    /\ garmin_client = "None"
    /\ pc = "idle"
    /\ handler = "none"
    /\ args = [none |-> TRUE]
    /\ calls = <<>>
    /\ outcome = NoOutcome
    /\ document = NoDoc
    /\ tasks = [t \in Tasks |-> IdleTask]

\* configure(client)
configure(client) ==
    /\ pc = "idle"
    /\ garmin_client' = client
    /\ UNCHANGED <<pc, handler, args, calls, outcome, document, tasks>>

\* Mutant: a handler that ends with an error text drops the client handle.
Invocation_DropsClientOnError(name, a, run) ==
    /\ pc = "idle"
    /\ pc' = "done"
    /\ handler' = name
    /\ args' = a
    /\ calls' = run.calls
    /\ outcome' = run.out
    /\ document' = run.doc
    /\ garmin_client' = IF run.doc = NoDoc THEN "None" ELSE garmin_client
    /\ UNCHANGED tasks

\* The host calls the registered tool name with arguments a; run is what it did.
Invocation(name, a, run) ==
    /\ pc = "idle"
    /\ pc' = "done"
    /\ handler' = name
    /\ args' = a
    /\ calls' = run.calls
    /\ outcome' = run.out
    /\ document' = run.doc
    /\ UNCHANGED <<garmin_client, tasks>>

\* The host takes the result; nothing of the invocation is kept.
HostReturns ==
    /\ pc = "done"
    /\ pc' = "idle"
    /\ handler' = "none"
    /\ args' = [none |-> TRUE]
    /\ calls' = <<>>
    /\ outcome' = NoOutcome
    /\ document' = NoDoc
    /\ UNCHANGED <<garmin_client, tasks>>

get_nutrition_log ==
    /\ pc = "idle"
    /\ \E date \in Dates, resp \in DailyLogResponses :
           Invocation("get_nutrition_log", [date |-> date],
                      get_nutrition_log_run(garmin_client, date, resp))

get_nutrition_summary ==
    /\ pc = "idle"
    /\ \E date \in Dates, resp \in DailyLogResponses :
           Invocation("get_nutrition_summary", [date |-> date],
                      get_nutrition_summary_run(garmin_client, date, resp))

get_nutrition_settings ==
    /\ pc = "idle"
    /\ \E date \in OptionalDates, resp \in OrErrors(SettingsPool) :
           Invocation("get_nutrition_settings", [date |-> date],
                      get_nutrition_settings_run(garmin_client, date, resp))

search_foods ==
    /\ pc = "idle"
    /\ \E results \in SearchResultLists, more \in MoreFlags :
           \E resp \in OrErrors({SearchResults(results, more)}) :
               Invocation("search_foods", [query |-> StrV("banana"), start |-> IntV(0), limit |-> IntV(20)],
                          search_foods_run(garmin_client, StrV("banana"), IntV(0), IntV(20), resp))

get_recent_foods ==
    /\ pc = "idle"
    /\ \E meal \in MealInputs, date \in OptionalDates, r1 \in MealDefResponses :
           \E r2 \in AfterResolve(garmin_client, meal, date, r1, RecentFoodsResponses) :
               Invocation("get_recent_foods", [meal |-> meal, date |-> date],
                          get_recent_foods_run(garmin_client, meal, date, r1, r2))

list_favorite_foods ==
    /\ pc = "idle"
    /\ \E items \in SearchResultLists, more \in MoreFlags :
           \E resp \in OrErrors({FavoriteFoodList(items, more)}) :
               Invocation("list_favorite_foods", [query |-> StrV(""), start |-> IntV(0), limit |-> IntV(20)],
                          list_favorite_foods_run(garmin_client, StrV(""), IntV(0), IntV(20), resp))

list_custom_foods ==
    /\ pc = "idle"
    /\ \E items \in SearchResultLists, more \in MoreFlags :
           \E resp \in OrErrors({CustomFoodList(items, more)}) :
               Invocation("list_custom_foods", [query |-> StrV(""), start |-> IntV(0), limit |-> IntV(20)],
                          list_custom_foods_run(garmin_client, StrV(""), IntV(0), IntV(20), resp))

log_food ==
    /\ pc = "idle"
    /\ \E date \in Dates, meal \in MealInputs, food_id \in IdValues, serving_id \in IdValues :
           \E r1 \in MealDefResponses :
               \E r2 \in AfterResolve(garmin_client, meal, date, r1, DailyLogResponses) :
                   Invocation("log_food",
                              [date |-> date, meal |-> meal, food_id |-> food_id,
                               serving_id |-> serving_id, source |-> StrV("FATSECRET"),
                               serving_qty |-> FloatV(1)],
                              log_food_run(garmin_client, date, meal, food_id, serving_id,
                                           StrV("FATSECRET"), FloatV(1), r1, r2))

quick_add_nutrition ==
    /\ pc = "idle"
    /\ \E date \in Dates, meal \in MealInputs, r1 \in MealDefResponses :
           \E r2 \in AfterResolve(garmin_client, meal, date, r1, DailyLogResponses) :
               Invocation("quick_add_nutrition",
                          [date |-> date, meal |-> meal, name |-> StrV("Smoothie"),
                           calories |-> FloatV(350), protein |-> FloatV(20),
                           fat |-> IntV(0), carbs |-> IntV(0)],
                          quick_add_nutrition_run(garmin_client, date, meal, StrV("Smoothie"),
                                                  FloatV(350), FloatV(20), IntV(0), IntV(0), r1, r2))

update_food_log ==
    /\ pc = "idle"
    /\ \E date \in Dates, meal \in MealInputs, log_id \in IdValues :
           \E r1 \in MealDefResponses :
               \E r2 \in AfterResolve(garmin_client, meal, date, r1, DailyLogResponses) :
                   Invocation("update_food_log",
                              [date |-> date, log_id |-> log_id, meal |-> meal,
                               food_id |-> StrV("5367"), serving_id |-> IntV(54047),
                               source |-> StrV("FATSECRET"), serving_qty |-> FloatV(2)],
                              update_food_log_run(garmin_client, date, log_id, meal, StrV("5367"),
                                                  IntV(54047), StrV("FATSECRET"), FloatV(2), r1, r2))

remove_food_log ==
    /\ pc = "idle"
    /\ \E date \in Dates, log_ids \in LogIdsInputs, resp \in VoidResponses :
           Invocation("remove_food_log", [date |-> date, log_ids |-> log_ids],
                      remove_food_log_run(garmin_client, date, log_ids, resp))

add_favorite_food ==
    /\ pc = "idle"
    /\ \E food_id \in IdValues, serving_id \in IdValues, resp \in VoidResponses :
           Invocation("add_favorite_food",
                      [food_id |-> food_id, serving_id |-> serving_id,
                       source |-> StrV("FATSECRET"), serving_qty |-> FloatV(1)],
                      add_favorite_food_run(garmin_client, food_id, serving_id,
                                            StrV("FATSECRET"), FloatV(1), resp))

remove_favorite_food ==
    /\ pc = "idle"
    /\ \E food_id \in IdValues, resp \in VoidResponses :
           Invocation("remove_favorite_food", [food_id |-> food_id],
                      remove_favorite_food_run(garmin_client, food_id, resp))

create_custom_food ==
    /\ pc = "idle"
    /\ \E protein \in {FloatV(20), None}, resp \in OrErrors({SrOatmeal, SrBare, SrEmpty}) :
           Invocation("create_custom_food",
                      [food_name |-> StrV("Test Food"), serving_unit |-> StrV("g"),
                       number_of_units |-> FloatV(100), calories |-> FloatV(250),
                       protein |-> protein],
                      create_custom_food_run(garmin_client, StrV("Test Food"), StrV("g"),
                                             FloatV(100), FloatV(250), protein, resp))

delete_custom_food ==
    /\ pc = "idle"
    /\ \E food_id \in IdValues, resp \in VoidResponses :
           Invocation("delete_custom_food", [food_id |-> food_id],
                      delete_custom_food_run(garmin_client, food_id, resp))

list_custom_meals ==
    /\ pc = "idle"
    /\ \E items \in SearchResultLists, more \in MoreFlags :
           \E resp \in OrErrors({CustomMealList(items, more)}) :
               Invocation("list_custom_meals", [query |-> StrV(""), start |-> IntV(0), limit |-> IntV(20)],
                          list_custom_meals_run(garmin_client, StrV(""), IntV(0), IntV(20), resp))

create_custom_meal ==
    /\ pc = "idle"
    /\ \E foods_json \in FoodsJsonInputs, resp \in CustomMealResponses :
           Invocation("create_custom_meal", [name |-> StrV("Test Meal"), foods_json |-> foods_json],
                      create_custom_meal_run(garmin_client, StrV("Test Meal"), foods_json, resp))

Next ==
    \/ \E client \in {"None", "client"} : configure(client)
    \/ get_nutrition_log
    \/ get_nutrition_summary
    \/ get_nutrition_settings
    \/ search_foods
    \/ get_recent_foods
    \/ list_favorite_foods
    \/ list_custom_foods
    \/ log_food
    \/ quick_add_nutrition
    \/ update_food_log
    \/ remove_food_log
    \/ add_favorite_food
    \/ remove_favorite_food
    \/ create_custom_food
    \/ delete_custom_food
    \/ list_custom_meals
    \/ create_custom_meal
    \/ HostReturns

Spec == Init /\ [][Next]_vars

-----------------------------------------------------------------------------
(* Properties *)

Done == pc = "done"

\* The handlers that take a meal name, and the operation each runs after resolving it.
MealHandlers == {"get_recent_foods", "log_food", "quick_add_nutrition", "update_food_log"}

MainOp(h) ==
    IF h = "get_recent_foods" THEN "FoodSearch.recent"
    ELSE IF h = "log_food" THEN "FoodLog.add"
    ELSE IF h = "quick_add_nutrition" THEN "QuickAdd.add"
    ELSE "FoodLog.update"

\* The fixed <doing-X> phrase of each handler's error text.
DoingPhrase(h) ==
    IF h = "get_nutrition_log" THEN "getting nutrition log"
    ELSE IF h = "get_nutrition_summary" THEN "getting nutrition summary"
    ELSE IF h = "get_nutrition_settings" THEN "getting nutrition settings"
    ELSE IF h = "search_foods" THEN "searching foods"
    ELSE IF h = "get_recent_foods" THEN "getting recent foods"
    ELSE IF h = "list_favorite_foods" THEN "listing favorites"
    ELSE IF h = "list_custom_foods" THEN "listing custom foods"
    ELSE IF h = "log_food" THEN "logging food"
    ELSE IF h = "quick_add_nutrition" THEN "quick-adding nutrition"
    ELSE IF h = "update_food_log" THEN "updating food log"
    ELSE IF h = "remove_food_log" THEN "removing food log entries"
    ELSE IF h = "add_favorite_food" THEN "adding favorite"
    ELSE IF h = "remove_favorite_food" THEN "removing favorite"
    ELSE IF h = "create_custom_food" THEN "creating custom food"
    ELSE IF h = "delete_custom_food" THEN "deleting custom food"
    ELSE IF h = "list_custom_meals" THEN "listing custom meals"
    ELSE "creating custom meal"

ErrorText(h, msg) == "Error " \o DoingPhrase(h) \o ": " \o msg

\* Some collaborator operation of the invocation raised.
SomeCallRaised == \E i \in 1..Len(calls) : calls[i].resp.raises

\* The invocation fetched the meal definitions and the fetch returned them.
FetchedDefs ==
    /\ Done
    /\ handler \in MealHandlers
    /\ calls /= <<>>
    /\ calls[1].op = "MealDefinitions.get"
    /\ ~calls[1].resp.raises

\* The definitions the fetch of the invocation returned.
FetchedMeals == calls[1].resp.ret.items

\* Fetched definition i has the caller's meal name: its name upper-cased is
\* the caller's name trimmed and upper-cased.
DefMatches(i) == Upper(FetchedMeals[i].meal_name) = Upper(Strip(args.meal))

\* Each meal name the caller may give, with its trimmed and upper-cased form.
NormalForms == {<<m, Upper(Strip(m))>> : m \in MealInputs}

\* No fetched definition has the caller's meal name, case and the space around
\* the caller's name aside.
NoDefMatches == \A i \in 1..Len(FetchedMeals) : ~DefMatches(i)

RECURSIVE QuotedNames(_, _)
\* 'n1', 'n2', ... for the names of definitions k..Len(defs)
QuotedNames(defs, k) ==
    IF k > Len(defs) THEN ""
    ELSE (IF k = 1 THEN "" ELSE ", ") \o "'" \o StrOf(defs[k].meal_name) \o "'"
            \o QuotedNames(defs, k + 1)

\* The Unknown-meal message that lists exactly the names of defs, in order.
UnknownMealListing(meal, defs) ==
    "Unknown meal '" \o StrOf(meal) \o "'. Available: [" \o QuotedNames(defs, 1) \o "]"

\* C1: every handler invocation, whatever its arguments and whatever a
\* collaborator operation (the meal-definition fetch included) raises, ends by
\* returning a text; no exception passes the tool boundary.
C1_NoExceptionEscapes == Done => outcome.kind = "return"

C1_Witness ==
    /\ Done
    /\ handler = "log_food"
    /\ Len(calls) = 1
    /\ calls[1].op = "MealDefinitions.get"
    /\ calls[1].resp.raises
    /\ outcome.kind = "return"

\* C2: whenever a collaborator operation of an invocation raised with message
\* M, the handler's result is the text 'Error <doing-X>: M' with the handler's
\* fixed phrase.
C2_ErrorCarriesMessage ==
    Done => \A i \in 1..Len(calls) :
                calls[i].resp.raises => outcome = Returned(ErrorText(handler, calls[i].resp.msg))

\* C3: for the definitions an invocation fetched, every meal name equal to the
\* caller's after trimming and upper-casing resolves as the caller's did: to the
\* same meal_id when it resolved, to a failure when it failed.
C3_ResolutionIgnoresCaseAndSpace ==
    FetchedDefs =>
        LET form == Upper(Strip(args.meal))
        IN  \A m2 \in MealInputs :
                <<m2, form>> \in NormalForms =>
                    IF Len(calls) >= 2
                    THEN ResolveIn(FetchedMeals, m2) = Value(calls[2].params.meal_id)
                    ELSE ResolveIn(FetchedMeals, m2).kind = "raise"

C3_Witness ==
    /\ FetchedDefs
    /\ args.meal = <<" ", "a", "B">>
    /\ Len(calls) = 2
    /\ calls[2].params.meal_id = 645041

\* C4: when no fetched definition matches the meal name, the invocation fails
\* with an Unknown-meal error whose Available list is exactly the fetched
\* definitions' names, in definition order.
C4_UnknownMealListsFetchedNames ==
    (FetchedDefs /\ NoDefMatches) =>
        \E h \in MealHandlers :
            outcome = Returned(ErrorText(h, UnknownMealListing(args.meal, FetchedMeals)))

C4_Witness ==
    /\ FetchedDefs
    /\ NoDefMatches
    /\ Len(FetchedMeals) = 2
    /\ FetchedMeals[1].meal_name /= FetchedMeals[2].meal_name

\* C5 as stated: a meal handler given a name that matches no definition returns
\* the text "Error: Unknown meal '<name>'. Available: [...]".
C5_UnknownMealPlainError ==
    (FetchedDefs /\ NoDefMatches) =>
        outcome = Returned("Error: " \o UnknownMealListing(args.meal, FetchedMeals))

\* C5 amended: the text is "Error <doing-X>: Unknown meal '<name>'. Available:
\* [...]", <doing-X> being the phrase of the handler that was invoked.
C5_UnknownMealHandlerError ==
    (FetchedDefs /\ NoDefMatches) =>
        outcome = Returned(ErrorText(handler, UnknownMealListing(args.meal, FetchedMeals)))

C5_Witness ==
    /\ FetchedDefs
    /\ NoDefMatches
    /\ handler = "quick_add_nutrition"
    /\ args.meal = <<"a">>

\* C6: in the four meal handlers the definition fetch precedes the main
\* operation, and when resolution fails (the fetch raised, or no definition
\* matches) the main operation is not invoked and an error text is returned.
C6_NoMainOpWithoutResolution ==
    (Done /\ handler \in MealHandlers) =>
        /\ \A i \in 1..Len(calls) :
              calls[i].op = MainOp(handler) =>
                  /\ i > 1
                  /\ \E j \in 1..(i - 1) : calls[j].op = "MealDefinitions.get"
        /\ (calls /= <<>> /\ calls[1].resp.raises) =>
              /\ \A i \in 1..Len(calls) : calls[i].op /= MainOp(handler)
              /\ outcome = Returned(ErrorText(handler, calls[1].resp.msg))
        /\ (FetchedDefs /\ NoDefMatches) =>
              /\ \A i \in 1..Len(calls) : calls[i].op /= MainOp(handler)
              /\ outcome = Returned(ErrorText(handler,
                                UnknownMealListing(args.meal, FetchedMeals)))

C6_Witness ==
    /\ FetchedDefs
    /\ NoDefMatches
    /\ handler = "update_food_log"
    /\ FetchedMeals /= <<>>
    /\ Len(calls) = 1

\* Every comma-separated entry of the log_ids argument is empty or whitespace.
OnlyBlankEntries == \A i \in 1..Len(args.log_ids) : args.log_ids[i] \in {",", " "}

\* The non-empty trimmed comma-separated entries of the log_ids argument, in order.
TrimmedEntries ==
    LET pieces == Split(args.log_ids, ",")
        kept == SelectSeq(pieces, LAMBDA piece : \E i \in 1..Len(piece) : piece[i] /= " ")
    IN  [i \in 1..Len(kept) |-> StrV(StrOf(Strip(kept[i])))]

\* C7: for a log_ids whose entries are all empty or whitespace, remove_food_log
\* invokes no collaborator operation and returns the 'no log_ids' error; and
\* FoodLog.remove is never invoked with an empty id list.
C7_NoIdsNoCall ==
    (Done /\ handler = "remove_food_log") =>
        /\ OnlyBlankEntries =>
              /\ calls = <<>>
              /\ outcome = Returned("Error: no log_ids provided")
        /\ \A i \in 1..Len(calls) :
              calls[i].op = "FoodLog.remove" => calls[i].params.log_ids.items /= <<>>

C7_Witness ==
    /\ Done
    /\ handler = "remove_food_log"
    /\ garmin_client = "client"
    /\ args.log_ids = <<" ", ",", " ">>
    /\ outcome.text = "Error: no log_ids provided"

\* C8: when remove_food_log succeeds, FoodLog.remove was invoked exactly once,
\* with exactly the non-empty trimmed entries of log_ids in input order, and
\* removed_count is their number.
C8_RemovedCountIsEntryCount ==
    (Done /\ handler = "remove_food_log" /\ calls /= <<>> /\ ~SomeCallRaised) =>
        /\ Len(calls) = 1
        /\ calls[1].op = "FoodLog.remove"
        /\ calls[1].params.log_ids = ListV(TrimmedEntries)
        /\ outcome = Returned(Dumps(DictV(<<
                        <<"status", StrV("success")>>,
                        <<"date", args.date>>,
                        <<"removed_count", IntV(Len(TrimmedEntries))>> >>)))

C8_Witness ==
    /\ Done
    /\ handler = "remove_food_log"
    /\ args.log_ids = <<"a", ",", " ", "b">>
    /\ calls /= <<>>
    /\ ~SomeCallRaised
    /\ calls[1].params.log_ids = ListV(<<StrV("a"), StrV("b")>>)

\* The foods_json argument is a text that is not a JSON document.
UnparseableFoodsJson ==
    /\ Done
    /\ handler = "create_custom_meal"
    /\ args.foods_json.t = "chars"
    /\ ~ParseJson(args.foods_json.cs).ok

\* The foods_json argument is a text that is a JSON document other than an array.
NonArrayFoodsJson ==
    /\ Done
    /\ handler = "create_custom_meal"
    /\ args.foods_json.t = "chars"
    /\ ParseJson(args.foods_json.cs).ok
    /\ ParseJson(args.foods_json.cs).val.t /= "list"

\* C9: for a foods_json text that does not parse as JSON, create_custom_meal
\* returns the 'not valid JSON' error and CustomMeal.create is not invoked.
C9_InvalidJsonRejected ==
    UnparseableFoodsJson =>
        /\ outcome = Returned("Error: foods_json is not valid JSON")
        /\ \A i \in 1..Len(calls) : calls[i].op /= "CustomMeal.create"

C9_Witness ==
    /\ UnparseableFoodsJson
    /\ garmin_client = "client"
    /\ args.foods_json.cs = <<"[", "1", ",">>

\* C10: for a foods_json text that is valid JSON but not an array,
\* create_custom_meal returns 'Error: foods_json must be a JSON array' and
\* CustomMeal.create is not invoked.
C10_NonArrayRejected ==
    NonArrayFoodsJson =>
        /\ outcome = Returned("Error: foods_json must be a JSON array")
        /\ \A i \in 1..Len(calls) : calls[i].op /= "CustomMeal.create"

C10_Witness ==
    /\ NonArrayFoodsJson
    /\ garmin_client = "client"
    /\ args.foods_json.cs = <<"{", "}">>

-----------------------------------------------------------------------------
(* Properties of the returned documents *)

\* The invocation returned a serialised document.
ReturnedDocument == Done /\ outcome.kind = "return" /\ document /= NoDoc

\* The keys of a dict, in order.
Keys(d) == [i \in 1..Len(d.pairs) |-> d.pairs[i][1]]

HasKey(d, k) == \E i \in 1..Len(d.pairs) : d.pairs[i][1] = k

\* d[k] for a key the dict has
Get(d, k) == d.pairs[CHOOSE i \in 1..Len(d.pairs) : d.pairs[i][1] = k][2]

RECURSIVE HasNullValuedKey(_)
\* Some dict of the value, at any nesting level, has a key whose value is null.
HasNullValuedKey(v) ==
    IF v.t = "dict"
    THEN \E i \in 1..Len(v.pairs) :
            v.pairs[i][2] = None \/ HasNullValuedKey(v.pairs[i][2])
    ELSE IF v.t = "list"
    THEN \E i \in 1..Len(v.items) : HasNullValuedKey(v.items[i])
    ELSE FALSE

\* C11: no document a handler returns has, at any nesting level, a key whose
\* value is null, whatever optional fields of the collaborator's response are
\* null.
C11_NoNullValuedKey == ReturnedDocument => ~HasNullValuedKey(document)

\* The handlers that return a curated daily log.
DailyLogHandlers == {"get_nutrition_log", "log_food", "quick_add_nutrition", "update_food_log"}

\* The invocation returned the curation of the daily log its last call returned.
ReturnedDailyLog == ReturnedDocument /\ handler \in DailyLogHandlers

\* The daily log the collaborator returned to the invocation.
SourceLog == calls[Len(calls)].resp.ret

\* A logged food with a name and an id and no brand.
Unbranded(lf) ==
    /\ lf.food_meta_data /= None
    /\ lf.food_meta_data.brand_name = None
    /\ lf.food_meta_data.food_name /= None
    /\ lf.food_meta_data.food_id /= None

\* The curated entry of logged food j of meal detail i.
FoodEntry(i, j) == Get(Get(document, "meals").items[i], "foods").items[j]

\* C12: a logged food of the daily log whose brand_name is null and whose
\* food_name and food_id are not is curated to an entry holding the source's
\* food_name and food_id and no brand_name key.
C12_NullBrandOmitted ==
    ReturnedDailyLog =>
        \A i \in 1..Len(SourceLog.meal_details.items) :
            LET md == SourceLog.meal_details.items[i]
            IN  Truthy(md.logged_foods) =>
                    \A j \in 1..Len(md.logged_foods.items) :
                        LET lf == md.logged_foods.items[j]
                        IN  Unbranded(lf) =>
                                /\ HasKey(FoodEntry(i, j), "food_name")
                                /\ Get(FoodEntry(i, j), "food_name") = lf.food_meta_data.food_name
                                /\ HasKey(FoodEntry(i, j), "food_id")
                                /\ Get(FoodEntry(i, j), "food_id") = lf.food_meta_data.food_id
                                /\ ~HasKey(FoodEntry(i, j), "brand_name")

C12_Witness ==
    /\ ReturnedDailyLog
    /\ handler = "get_nutrition_log"
    /\ Len(SourceLog.meal_details.items) >= 1
    /\ Truthy(SourceLog.meal_details.items[1].logged_foods)
    /\ Unbranded(SourceLog.meal_details.items[1].logged_foods.items[1])
    /\ Keys(FoodEntry(1, 1)) = <<"log_id", "food_id", "food_name", "source", "serving_qty", "nutrition">>

\* The value the last collaborator call of the invocation returned.
LastResult == calls[Len(calls)].resp.ret

\* The list under key of the returned document is the element-wise curation of
\* the source collection: same length, same order.
CuratedInOrder(key, source) ==
    /\ HasKey(document, key)
    /\ Len(Get(document, key).items) = Len(source.items)
    /\ \A i \in 1..Len(source.items) :
            Get(document, key).items[i] = _curate_search_result(source.items[i])

\* C13: the lists returned by search_foods, get_recent_foods,
\* list_favorite_foods, list_custom_foods and list_custom_meals have the
\* length of the source collection, and element i is the curation of source
\* element i.
C13_ListsKeepOrderAndCount ==
    ReturnedDocument =>
        /\ handler = "search_foods" => CuratedInOrder("results", LastResult.results)
        /\ handler = "get_recent_foods" =>
                /\ CuratedInOrder("frequent_foods", LastResult.frequent_foods)
                /\ CuratedInOrder("recent_foods", LastResult.recent_foods)
        /\ handler = "list_favorite_foods" => CuratedInOrder("favorites", LastResult.items)
        /\ handler = "list_custom_foods" => CuratedInOrder("custom_foods", LastResult.items)
        /\ handler = "list_custom_meals" => CuratedInOrder("custom_meals", LastResult.items)

C13_Witness ==
    /\ ReturnedDocument
    /\ handler = "list_custom_meals"
    /\ LastResult.items = ListV(<<SrBare, SrOatmeal>>)
    /\ Len(Get(document, "custom_meals").items) = 2
    /\ Get(Get(document, "custom_meals").items[1], "brand_name") = StrV("Acme")

\* The four macro fields of a summary.
MacroKeys == {"calories", "protein", "fat", "carbs"}

\* The dict holds exactly the non-null macro fields of the source object, with
\* the source's values (none when the source object is absent).
HoldsMacrosOf(d, source) ==
    /\ d.t = "dict"
    /\ \A i \in 1..Len(d.pairs) : d.pairs[i][1] \in MacroKeys
    /\ \A k \in MacroKeys :
            IF Truthy(source) /\ source[k] /= None
            THEN HasKey(d, k) /\ Get(d, k) = source[k]
            ELSE ~HasKey(d, k)

\* C14: get_nutrition_summary returns a document whose keys are exactly date,
\* totals and goals (no meals key, no per-meal data), totals and goals holding
\* the non-null calories / protein / fat / carbs of the source's daily content
\* and daily goals.
C14_SummaryIsTotalsAndGoals ==
    (ReturnedDocument /\ handler = "get_nutrition_summary") =>
        /\ Len(document.pairs) = 3
        /\ {document.pairs[i][1] : i \in 1..Len(document.pairs)} = {"date", "totals", "goals"}
        /\ Get(document, "date") = LastResult.meal_date
        /\ HoldsMacrosOf(Get(document, "totals"), LastResult.daily_nutrition_content)
        /\ HoldsMacrosOf(Get(document, "goals"), LastResult.daily_nutrition_goals)

C14_Witness ==
    /\ ReturnedDocument
    /\ handler = "get_nutrition_summary"
    /\ LastResult.meal_details.items /= <<>>
    /\ Keys(Get(document, "goals")) = <<"calories", "protein", "fat", "carbs">>
    /\ Keys(Get(document, "totals")) = <<"calories">>

\* Entry i of meals in the returned daily log.
MealEntry(i) == Get(document, "meals").items[i]

\* C15: in the curated daily log, meals has one entry per source meal detail,
\* in source order, each with the source's meal_name and meal_id; the entry has
\* a totals key exactly when the source meal has nutrition content, and a foods
\* key exactly when it has at least one logged food, one entry per logged food.
C15_MealEntriesFollowSource ==
    ReturnedDailyLog =>
        /\ HasKey(document, "meals")
        /\ Len(Get(document, "meals").items) = Len(SourceLog.meal_details.items)
        /\ \A i \in 1..Len(SourceLog.meal_details.items) :
            LET md == SourceLog.meal_details.items[i]
            IN  /\ HasKey(MealEntry(i), "meal_name")
                /\ Get(MealEntry(i), "meal_name") = md.meal.meal_name
                /\ HasKey(MealEntry(i), "meal_id")
                /\ Get(MealEntry(i), "meal_id") = md.meal.meal_id
                /\ HasKey(MealEntry(i), "totals") <=> md.meal_nutrition_content /= None
                /\ HasKey(MealEntry(i), "foods") <=>
                        (md.logged_foods /= None /\ Len(md.logged_foods.items) >= 1)
                /\ HasKey(MealEntry(i), "foods") =>
                        Len(Get(MealEntry(i), "foods").items) = Len(md.logged_foods.items)

C15_Witness ==
    /\ ReturnedDailyLog
    /\ handler = "log_food"
    /\ Len(SourceLog.meal_details.items) = 2
    /\ SourceLog.meal_details.items[2].logged_foods = ListV(<<>>)
    /\ Keys(MealEntry(1)) = <<"meal_name", "meal_id", "totals", "foods">>
    /\ Keys(MealEntry(2)) = <<"meal_name", "meal_id", "totals">>

\* C16: within one invocation no collaborator operation is invoked twice, and
\* an operation that raised is the last one invoked.
C16_NoRetry ==
    Done =>
        /\ \A i, j \in 1..Len(calls) : i /= j => calls[i].op /= calls[j].op
        /\ \A i \in 1..Len(calls) : calls[i].resp.raises => i = Len(calls)

C16_Witness ==
    /\ Done
    /\ handler = "log_food"
    /\ Len(calls) = 1
    /\ calls[1].op = "MealDefinitions.get"
    /\ calls[1].resp.raises
    /\ outcome = Returned(ErrorText("log_food", "API down"))

\* The arguments pass the checks a handler makes before it invokes anything:
\* remove_food_log has at least one id, create_custom_meal has an array of foods.
PassesLocalValidation ==
    /\ handler = "remove_food_log" => ~OnlyBlankEntries
    /\ handler = "create_custom_meal" =>
            \/ args.foods_json.t = "list"
            \/ /\ ParseJson(args.foods_json.cs).ok
               /\ ParseJson(args.foods_json.cs).val.t = "list"

\* The operation of each handler that takes no meal name.
OperationOf(h) ==
    IF h \in {"get_nutrition_log", "get_nutrition_summary"} THEN "DailyNutritionLog.get"
    ELSE IF h = "get_nutrition_settings" THEN "NutritionSettings.get"
    ELSE IF h = "search_foods" THEN "FoodSearch.search"
    ELSE IF h = "list_favorite_foods" THEN "FavoriteFoods.list"
    ELSE IF h = "list_custom_foods" THEN "CustomFood.list"
    ELSE IF h = "remove_food_log" THEN "FoodLog.remove"
    ELSE IF h = "add_favorite_food" THEN "FavoriteFoods.add"
    ELSE IF h = "remove_favorite_food" THEN "FavoriteFoods.remove"
    ELSE IF h = "create_custom_food" THEN "CustomFood.create"
    ELSE IF h = "delete_custom_food" THEN "CustomFood.delete"
    ELSE IF h = "list_custom_meals" THEN "CustomMeal.list"
    ELSE "CustomMeal.create"

\* The foods handed to CustomMeal.create: the list given, or the parsed text.
GivenFoods ==
    IF args.foods_json.t = "list" THEN args.foods_json ELSE ParseJson(args.foods_json.cs).val

\* The id of the first fetched definition whose name is the caller's meal name,
\* case and surrounding space aside.
FirstMatchingId ==
    FetchedMeals[CHOOSE i \in 1..Len(FetchedMeals) :
                    DefMatches(i) /\ \A j \in 1..(i - 1) : ~DefMatches(j)].meal_id

\* The parameters a handler hands to its operation, from the arguments given
\* (meal_id: the id the meal name resolved to, for the handlers that take one).
AssembledParams(h, meal_id) ==
    IF h \in {"get_nutrition_log", "get_nutrition_summary", "get_nutrition_settings"}
    THEN [day |-> args.date]
    ELSE IF h \in {"search_foods", "list_favorite_foods", "list_custom_foods", "list_custom_meals"}
    THEN [query |-> args.query, start |-> args.start, limit |-> args.limit]
    ELSE IF h = "get_recent_foods" THEN [meal_id |-> meal_id, day |-> args.date]
    ELSE IF h = "log_food"
    THEN [day |-> args.date, meal_id |-> meal_id, food_id |-> StrV(PyStr(args.food_id)),
          serving_id |-> StrV(PyStr(args.serving_id)), source |-> args.source,
          serving_qty |-> args.serving_qty]
    ELSE IF h = "quick_add_nutrition"
    THEN [day |-> args.date, meal_id |-> meal_id, name |-> args.name,
          calories |-> args.calories, protein |-> args.protein, fat |-> args.fat,
          carbs |-> args.carbs]
    ELSE IF h = "update_food_log"
    THEN [day |-> args.date, log_id |-> StrV(PyStr(args.log_id)), meal_id |-> meal_id,
          food_id |-> StrV(PyStr(args.food_id)), serving_id |-> StrV(PyStr(args.serving_id)),
          source |-> args.source, serving_qty |-> args.serving_qty]
    ELSE IF h = "remove_food_log" THEN [day |-> args.date, log_ids |-> ListV(TrimmedEntries)]
    ELSE IF h = "add_favorite_food"
    THEN [food_id |-> StrV(PyStr(args.food_id)), serving_id |-> StrV(PyStr(args.serving_id)),
          source |-> args.source, serving_qty |-> args.serving_qty]
    ELSE IF h \in {"remove_favorite_food", "delete_custom_food"}
    THEN [food_id |-> StrV(PyStr(args.food_id))]
    ELSE IF h = "create_custom_food"
    THEN [food_name |-> args.food_name, serving_unit |-> args.serving_unit,
          number_of_units |-> args.number_of_units, calories |-> args.calories,
          protein |-> args.protein, fat |-> None, carbs |-> None, fiber |-> None,
          sugar |-> None]
    ELSE [name |-> args.name, foods |-> GivenFoods]

\* C17 (as stated): with a client configured, an invocation that passes local
\* validation invokes exactly one collaborator operation.
C17_ExactlyOneOperation ==
    (Done /\ garmin_client /= "None" /\ PassesLocalValidation) => Len(calls) = 1

\* C17 (amended): with a client configured, an invocation that passes local
\* validation invokes its own operation exactly once, with the parameters
\* assembled from its arguments, and nothing else -- except that a handler
\* taking a meal name first invokes MealDefinitions.get once, for the date
\* given, and invokes its own operation (once, with the resolved meal_id) only
\* when the fetch returned and a definition matched.  With no client
\* configured nothing is invoked.
C17_OneOperationAfterAtMostOneFetch ==
    (Done /\ PassesLocalValidation) =>
        IF garmin_client = "None" THEN calls = <<>>
        ELSE IF handler \in MealHandlers
        THEN /\ Len(calls) >= 1
             /\ calls[1].op = "MealDefinitions.get"
             /\ calls[1].params = [day |-> args.date]
             /\ IF ~calls[1].resp.raises /\ ~NoDefMatches
                THEN /\ Len(calls) = 2
                     /\ calls[2].op = MainOp(handler)
                     /\ calls[2].params = AssembledParams(handler, FirstMatchingId)
                ELSE Len(calls) = 1
        ELSE /\ Len(calls) = 1
             /\ calls[1].op = OperationOf(handler)
             /\ calls[1].params = AssembledParams(handler, 0)

C17_Witness ==
    /\ Done
    /\ handler = "update_food_log"
    /\ garmin_client = "client"
    /\ args.log_id = IntV(5367)
    /\ Len(calls) = 2
    /\ calls[2].op = "FoodLog.update"
    /\ calls[2].params.meal_id = 645042
    /\ calls[2].params.log_id = StrV("5367")

\* The handlers that take an identifier as str or int.
IdHandlers ==
    {"log_food", "update_food_log", "add_favorite_food", "remove_favorite_food",
     "delete_custom_food"}

\* The numbers whose decimal string an identifier argument of the model may be.
IdNumbers == {5367, 54047}

\* The identifier x given as an integer and given as that integer's decimal string.
Renderings(x) ==
    {IntV(n) : n \in {m \in IdNumbers : Digits(m) = PyStr(x)}} \cup {StrV(PyStr(x))}

\* What the invocation did: its calls, its document and its outcome.
Ran == [calls |-> calls, doc |-> document, out |-> outcome]

\* The response the k-th call of the invocation got (any, when it made fewer).
Resp(k) == IF Len(calls) >= k THEN calls[k].resp ELSE Returns(None)

\* Every identifier the collaborator received is a str.
IdsReceivedAsStr ==
    \A i \in 1..Len(calls) :
        \A k \in {"food_id", "serving_id", "log_id"} :
            k \in DOMAIN calls[i].params => calls[i].params[k].t = "str"

\* C18: an identifier (food_id, serving_id, log_id) given as an integer and the
\* same identifier given as that integer's decimal string produce the same
\* collaborator calls and the same result, and the collaborator receives a str.
C18_IdentifierFormIsIrrelevant ==
    (Done /\ handler \in IdHandlers) =>
        /\ IdsReceivedAsStr
        /\ handler = "log_food" =>
            \A f \in Renderings(args.food_id), s \in Renderings(args.serving_id) :
                log_food_run(garmin_client, args.date, args.meal, f, s, args.source,
                             args.serving_qty, Resp(1), Resp(2)) = Ran
        /\ handler = "update_food_log" =>
            \A l \in Renderings(args.log_id), f \in Renderings(args.food_id),
               s \in Renderings(args.serving_id) :
                update_food_log_run(garmin_client, args.date, l, args.meal, f, s, args.source,
                                    args.serving_qty, Resp(1), Resp(2)) = Ran
        /\ handler = "add_favorite_food" =>
            \A f \in Renderings(args.food_id), s \in Renderings(args.serving_id) :
                add_favorite_food_run(garmin_client, f, s, args.source, args.serving_qty,
                                      Resp(1)) = Ran
        /\ handler = "remove_favorite_food" =>
            \A f \in Renderings(args.food_id) :
                remove_favorite_food_run(garmin_client, f, Resp(1)) = Ran
        /\ handler = "delete_custom_food" =>
            \A f \in Renderings(args.food_id) :
                delete_custom_food_run(garmin_client, f, Resp(1)) = Ran

C18_Witness ==
    /\ Done
    /\ handler = "add_favorite_food"
    /\ args.food_id = IntV(5367)
    /\ args.serving_id = StrV("5367")
    /\ Len(calls) = 1
    /\ calls[1].params.food_id = StrV("5367")
    /\ calls[1].params.serving_id = StrV("5367")
    /\ ~calls[1].resp.raises
    /\ Renderings(args.food_id) = {IntV(5367), StrV("5367")}

\* C19: a handler invocation, successful or failing, leaves the module-level
\* client handle garmin_client as it was; a step that changes it is a
\* configure step.
C19_HandlersKeepClient ==
    [][/\ (pc = "idle" /\ pc' = "done") => garmin_client' = garmin_client
       /\ garmin_client' /= garmin_client =>
            \E client \in {"None", "client"} : configure(client)]_vars

C19_Witness ==
    /\ Done
    /\ garmin_client = "client"
    /\ handler = "remove_food_log"
    /\ Len(calls) = 1
    /\ calls[1].resp.raises
    /\ outcome = Returned(ErrorText("remove_food_log", "API down"))

-----------------------------------------------------------------------------
(* Properties of create_custom_meal's two input forms *)

\* The texts that json.loads turns into the list L.
TextsEncoding(L) ==
    {cs \in FoodsJsonTexts : ParseJson(cs).ok /\ ParseJson(cs).val = L}

\* The invocation of create_custom_meal with foods_json in the other form, the
\* name, the client and the collaborator's response being the same.
CustomMealRunWith(foods_json) ==
    create_custom_meal_run(garmin_client, args.name, foods_json, Resp(1))

\* C21: create_custom_meal given a list L and given a JSON text that encodes L
\* makes the same CustomMeal.create call (same name, same foods) and returns
\* the same result.
C21_ListAndTextAgree ==
    (Done /\ handler = "create_custom_meal") =>
        /\ args.foods_json.t = "list" =>
                \A cs \in TextsEncoding(args.foods_json) : CustomMealRunWith(Chars(cs)) = Ran
        /\ (args.foods_json.t = "chars" /\ ParseJson(args.foods_json.cs).ok
                /\ ParseJson(args.foods_json.cs).val.t = "list") =>
                CustomMealRunWith(ParseJson(args.foods_json.cs).val) = Ran

C21_Witness ==
    /\ Done
    /\ handler = "create_custom_meal"
    /\ garmin_client = "client"
    /\ args.foods_json = ListV(<<IntV(1)>>)
    /\ <<"[", "1", "]">> \in TextsEncoding(args.foods_json)
    /\ Len(calls) = 1
    /\ calls[1].op = "CustomMeal.create"
    /\ calls[1].params = [name |-> StrV("Test Meal"), foods |-> ListV(<<IntV(1)>>)]
    /\ document /= NoDoc

-----------------------------------------------------------------------------
(* Properties of the resolved meal_id *)

\* The meal_id the invocation resolved: the one it handed to its own operation.
ResolvedMealId == calls[2].params.meal_id

\* C22: when several fetched definitions match the normalised meal name, the
\* meal_id resolved is that of the earliest matching definition in the order
\* of the fetched list.
C22_EarliestMatchWins ==
    FetchedDefs =>
        \A i \in 1..Len(FetchedMeals) :
            (DefMatches(i) /\ \A j \in 1..(i - 1) : ~DefMatches(j)) =>
                /\ Len(calls) = 2
                /\ ResolvedMealId = FetchedMeals[i].meal_id

C22_Witness ==
    /\ FetchedDefs
    /\ handler = "quick_add_nutrition"
    /\ Len(FetchedMeals) = 2
    /\ DefMatches(1)
    /\ DefMatches(2)
    /\ FetchedMeals[1].meal_id = 645042
    /\ FetchedMeals[2].meal_id = 645041
    /\ Len(calls) = 2
    /\ ResolvedMealId = 645042

\* C23: the meal_id handed to FoodSearch.recent, FoodLog.add, QuickAdd.add or
\* FoodLog.update is the meal_id of a definition that the same invocation
\* fetched, for the day value it hands to that operation, and whose name is the
\* caller's meal name, case (and the space around the caller's name) aside; an
\* id that is not among that day's definitions is never sent.
C23_MealIdComesFromSameDayDefinitions ==
    (Done /\ handler \in MealHandlers) =>
        \A i \in 1..Len(calls) :
            calls[i].op = MainOp(handler) =>
                \E j \in 1..(i - 1) :
                    /\ calls[j].op = "MealDefinitions.get"
                    /\ ~calls[j].resp.raises
                    /\ calls[j].params.day = calls[i].params.day
                    /\ calls[i].params.day = args.date
                    /\ \E k \in 1..Len(calls[j].resp.ret.items) :
                        /\ calls[j].resp.ret.items[k].meal_id = calls[i].params.meal_id
                        /\ Upper(calls[j].resp.ret.items[k].meal_name) = Upper(Strip(args.meal))

C23_Witness ==
    /\ Done
    /\ handler = "get_recent_foods"
    /\ args.date = None
    /\ args.meal = <<"a", "B", " ">>
    /\ Len(calls) = 2
    /\ calls[1].params.day = None
    /\ calls[1].resp.ret.items = <<Meal(645043, <<"b", " ">>), Meal(645041, <<"A", "b">>)>>
    /\ calls[2].op = "FoodSearch.recent"
    /\ calls[2].params = [meal_id |-> 645041, day |-> None]

-----------------------------------------------------------------------------
(* Properties of the curators' key sets *)

NutritionContentKeys ==
    {"serving_id", "serving_unit", "number_of_units", "calories", "protein", "fat", "carbs",
     "fiber", "sugar"}

SearchResultKeys == {"food_id", "food_name", "brand_name", "source", "servings", "is_favorite"}

LoggedFoodKeys ==
    {"log_id", "food_id", "food_name", "brand_name", "source", "serving_qty", "nutrition"}

\* Every key of the dict is in allowed.
KeysWithin(d, allowed) == \A i \in 1..Len(d.pairs) : d.pairs[i][1] \in allowed

\* d[k] is absent, or a dict whose keys are nutrition-content keys.
NutritionWithin(d, k) == HasKey(d, k) => KeysWithin(Get(d, k), NutritionContentKeys)

\* A curated search result of a returned document keeps to the allow-lists.
SearchResultWithin(d) ==
    /\ KeysWithin(d, SearchResultKeys)
    /\ HasKey(d, "servings") =>
            \A i \in 1..Len(Get(d, "servings").items) :
                KeysWithin(Get(d, "servings").items[i], NutritionContentKeys)

\* A curated logged food of a returned document keeps to the allow-lists.
LoggedFoodWithin(d) == KeysWithin(d, LoggedFoodKeys) /\ NutritionWithin(d, "nutrition")

\* Every element of the list under key is a curated search result within the allow-lists.
ListWithin(key) ==
    \A i \in 1..Len(Get(document, key).items) : SearchResultWithin(Get(document, key).items[i])

\* C24: in every returned document, a curated nutrition content has only the
\* keys serving_id, serving_unit, number_of_units, calories, protein, fat,
\* carbs, fiber, sugar; a curated search result only food_id, food_name,
\* brand_name, source, servings, is_favorite; a curated logged food only
\* log_id, food_id, food_name, brand_name, source, serving_qty, nutrition.  No
\* other field of the source object (food_type, food_images, log_timestamp)
\* is passed through.
C24_CuratorsKeepToAllowList ==
    ReturnedDocument =>
        /\ handler = "search_foods" => ListWithin("results")
        /\ handler = "get_recent_foods" => ListWithin("frequent_foods") /\ ListWithin("recent_foods")
        /\ handler = "list_favorite_foods" => ListWithin("favorites")
        /\ handler = "list_custom_foods" => ListWithin("custom_foods")
        /\ handler = "list_custom_meals" => ListWithin("custom_meals")
        /\ handler = "create_custom_food" => SearchResultWithin(document)
        /\ handler = "create_custom_meal" => NutritionWithin(document, "totals")
        /\ handler \in DailyLogHandlers =>
            \A i \in 1..Len(Get(document, "meals").items) :
                /\ NutritionWithin(MealEntry(i), "totals")
                /\ HasKey(MealEntry(i), "foods") =>
                        \A j \in 1..Len(Get(MealEntry(i), "foods").items) :
                            LoggedFoodWithin(FoodEntry(i, j))

C24_Witness ==
    /\ ReturnedDocument
    /\ handler = "search_foods"
    /\ LastResult.results = ListV(<<SrOatmeal>>)
    /\ LastResult.results.items[1].food_images = ListV(<<>>)
    /\ LastResult.results.items[1].food_meta_data.food_type = StrV("GENERIC")
    /\ Keys(Get(document, "results").items[1]) =
            <<"food_id", "food_name", "source", "servings", "is_favorite">>

\* The dict has key k exactly when the source value v is not null, and then
\* with v unchanged.
FieldFollows(d, k, v) ==
    IF v /= None THEN HasKey(d, k) /\ Get(d, k) = v ELSE ~HasKey(d, k)

\* The food-metadata keys of the dict follow the source metadata (all absent
\* when the source has none).
MetaFollows(d, fm) ==
    \A k \in {"food_id", "food_name", "brand_name", "source"} :
        FieldFollows(d, k, IF fm = None THEN None ELSE fm[k])

\* The keys of a curated nutrition content follow the source content.
NutritionFollows(d, nc) == \A k \in NutritionContentKeys : FieldFollows(d, k, nc[k])

\* The nutrition content under key k of the dict, when there is one, follows nc.
NestedNutritionFollows(d, k, nc) == HasKey(d, k) => NutritionFollows(Get(d, k), nc)

\* The scalar keys of a curated logged food other than log_id follow the source.
LoggedFoodFollows(e, lf) ==
    /\ FieldFollows(e, "serving_qty", lf.serving_qty)
    /\ MetaFollows(e, lf.food_meta_data)
    /\ NestedNutritionFollows(e, "nutrition", lf.selected_nutrition_content)

\* P holds of every logged food of the source log and its curated entry.
ForEachLoggedFood(P(_, _)) ==
    \A i \in 1..Len(SourceLog.meal_details.items) :
        Truthy(SourceLog.meal_details.items[i].logged_foods) =>
            \A j \in 1..Len(SourceLog.meal_details.items[i].logged_foods.items) :
                P(FoodEntry(i, j), SourceLog.meal_details.items[i].logged_foods.items[j])

\* C25: in a curated daily log, each allow-listed scalar key of a logged food
\* (log_id and serving_qty included), of its food metadata and of a nutrition
\* content is absent exactly when the source value is null; a non-null value
\* such as 0, 0.0 or the empty string is kept unchanged.
C25_OmittedExactlyWhenNull ==
    ReturnedDailyLog =>
        /\ \A i \in 1..Len(SourceLog.meal_details.items) :
                NestedNutritionFollows(MealEntry(i), "totals",
                                       SourceLog.meal_details.items[i].meal_nutrition_content)
        /\ ForEachLoggedFood(LAMBDA e, lf :
                FieldFollows(e, "log_id", lf.log_id) /\ LoggedFoodFollows(e, lf))

-----------------------------------------------------------------------------
(* Properties of create_custom_meal's error texts *)

\* C26: create_custom_meal returns 'Error: foods_json is not valid JSON' only
\* when the foods_json text failed to parse; when foods_json is a list or
\* parses to an array, a failure of CustomMeal.create, whatever it raises, is
\* reported as 'Error creating custom meal: <message>'.
C26_InvalidJsonTextOnlyForCallerInput ==
    (Done /\ handler = "create_custom_meal") =>
        /\ outcome = Returned("Error: foods_json is not valid JSON") => UnparseableFoodsJson
        /\ (PassesLocalValidation /\ calls /= <<>> /\ calls[1].resp.raises) =>
                outcome = Returned("Error creating custom meal: " \o calls[1].resp.msg)

\* The invocation failed with the Unknown-meal error: the fetch returned and
\* the handler's own operation was not invoked.
UnknownMealReported == FetchedDefs /\ Len(calls) = 1

\* What passing name k of the error's Available list back as the meal name
\* resolves to, against the same definitions.
ResolvedBack(k) == ResolveIn(FetchedMeals, FetchedMeals[k].meal_name)

\* C27: every name enumerated in the Available list of an Unknown-meal error,
\* passed back as the meal name against the same definitions, resolves, and to
\* the meal_id of a definition with that name.
C27_ListedNamesResolve ==
    UnknownMealReported =>
        \A k \in 1..Len(FetchedMeals) :
            /\ ResolvedBack(k).kind = "value"
            /\ \E i \in 1..Len(FetchedMeals) :
                /\ FetchedMeals[i].meal_name = FetchedMeals[k].meal_name
                /\ FetchedMeals[i].meal_id = ResolvedBack(k).value

-----------------------------------------------------------------------------
(* Properties relating the handlers that return a daily log *)

\* Key k1 of d1 and key k2 of d2 are both absent, or both present with the
\* same value.
SameEntry(d1, k1, d2, k2) ==
    /\ HasKey(d1, k1) <=> HasKey(d2, k2)
    /\ HasKey(d1, k1) => Get(d1, k1) = Get(d2, k2)

\* What get_nutrition_log does when DailyNutritionLog.get responds as the last
\* call of this invocation did, and the document it returns.
FullLogRun == get_nutrition_log_run(garmin_client, args.date, calls[Len(calls)].resp)
FullLogOfSameSource == FullLogRun.doc

\* C28: for every daily log L the collaborator returns, the date, totals and
\* goals of get_nutrition_summary are the date, daily_totals and daily_goals
\* of get_nutrition_log computed from the same L.
C28_SummaryAgreesWithLog ==
    (ReturnedDocument /\ handler = "get_nutrition_summary") =>
        /\ SameEntry(document, "date", FullLogOfSameSource, "date")
        /\ SameEntry(document, "totals", FullLogOfSameSource, "daily_totals")
        /\ SameEntry(document, "goals", FullLogOfSameSource, "daily_goals")

\* The handlers that write to the food log and return the resulting daily log.
WriteHandlers == {"log_food", "quick_add_nutrition", "update_food_log"}

\* C29: when log_food, quick_add_nutrition or update_food_log succeeds and the
\* collaborator returned daily log L, the text returned is the text
\* get_nutrition_log returns when DailyNutritionLog.get returns the same L.
C29_WriteHandlersReturnTheLogText ==
    (ReturnedDocument /\ handler \in WriteHandlers) =>
        /\ Len(calls) = 2
        /\ ~calls[2].resp.raises
        /\ FullLogRun.out.kind = "return"
        /\ outcome.text = FullLogRun.out.text
        /\ document = FullLogRun.doc

C29_Witness ==
    /\ ReturnedDocument
    /\ handler = "log_food"
    /\ Len(calls) = 2
    /\ calls[2].op = "FoodLog.add"
    /\ Len(calls[2].resp.ret.meal_details.items) = 2
    /\ FullLogRun.calls[1].op = "DailyNutritionLog.get"
    /\ FullLogRun.calls[1].resp.ret = calls[2].resp.ret
    /\ outcome.text = FullLogRun.out.text
    /\ Keys(document) = <<"date", "daily_goals", "daily_totals", "meals">>

-----------------------------------------------------------------------------
(* Properties of invocations with no client configured *)

\* The text a handler returns when its arguments fail its own checks, before
\* it looks up the client ("" when they pass).
LocalValidationText ==
    IF handler = "remove_food_log" /\ OnlyBlankEntries THEN "Error: no log_ids provided"
    ELSE IF UnparseableFoodsJson THEN "Error: foods_json is not valid JSON"
    ELSE IF NonArrayFoodsJson THEN "Error: foods_json must be a JSON array"
    ELSE ""

\* C30: with garmin_client None, every handler invocation returns a text that
\* begins with 'Error' and raises nothing, no collaborator operation is
\* invoked, and the no-ids error of remove_food_log and the invalid-JSON and
\* non-array errors of create_custom_meal are returned rather than the
\* missing-client error.
C30_NoClientMeansErrorText ==
    (Done /\ garmin_client = "None") =>
        /\ calls = <<>>
        /\ document = NoDoc
        /\ outcome =
            IF LocalValidationText /= "" THEN Returned(LocalValidationText)
            ELSE Returned("Error " \o DoingPhrase(handler) \o ": " \o NoneTypeMsg)

C30_Witness ==
    /\ Done
    /\ garmin_client = "None"
    /\ handler = "remove_food_log"
    /\ args.log_ids = <<",", " ">>
    /\ calls = <<>>
    /\ outcome = Returned("Error: no log_ids provided")

-----------------------------------------------------------------------------
(* Invocations in flight at once.  A handler has no await of its own; the    *)
(* finest interleaving another invocation can have with it is at its         *)
(* collaborator calls, each of which begins by reading garmin_client in      *)
(* _garth().  Everything else a handler touches is in its own frame.  The    *)
(* client handle is configured while nothing is in flight.                   *)

\* Mutant: the resolved meal_id is kept in one module-level slot.
MealIdSlot_Shared(t) == 1

\* The frame holding the local meal_id of invocation t: its own.
MealIdSlot(t) == t

\* Invocations the tasks draw from: two meal names that resolve to different
\* ids and one that is unknown; a log_ids with an id and one without.
TaskInvocations ==
    {[handler |-> "log_food",
      args |-> [date |-> Day, meal |-> m, food_id |-> IntV(5367), serving_id |-> StrV("5367"),
                source |-> StrV("FATSECRET"), serving_qty |-> FloatV(1)]] :
        m \in {<<"a", "b">>, <<"b">>, <<"a">>}}
    \cup {[handler |-> "get_recent_foods", args |-> [meal |-> m, date |-> None]] :
            m \in {<<"a", "b">>, <<"b">>}}
    \cup {[handler |-> "remove_food_log", args |-> [date |-> Day, log_ids |-> ids]] :
            ids \in {<<>>, <<"a">>}}
    \cup {[handler |-> "get_nutrition_log", args |-> [date |-> Day]]}

\* Responses of the operation a task invokes.
TaskResponses(op) ==
    {Raises("Exception", "API down")} \cup
    IF op = "MealDefinitions.get"
    THEN {Returns(ListV(<<Meal(645041, <<"A", "b">>), Meal(645043, <<"b">>)>>))}
    ELSE IF op = "FoodSearch.recent"
    THEN {Returns(RecentFoods(ListV(<<SrOatmeal>>), ListV(<<>>)))}
    ELSE IF op = "FoodLog.remove" THEN {Returns(None)}
    ELSE {Returns(DailyNutritionLog(Day, MacroFull, NcSparse, ListV(<<MdBreakfast>>)))}

\* The host invokes a handler while others may be in flight.
Begin(t) ==
    /\ tasks[t].pc = "idle"
    /\ \E inv \in TaskInvocations :
        tasks' = [tasks EXCEPT ![t].pc = IF inv.handler \in MealHandlers
                                         THEN "resolve" ELSE "main",
                               ![t].handler = inv.handler,
                               ![t].args = inv.args]
    /\ UNCHANGED <<garmin_client, pc, handler, args, calls, outcome, document>>

\* meal_id = _resolve_meal_id(meal, date): the fetch and the match; a failure
\* is caught by the handler's except clause.
Resolve(t) ==
    /\ tasks[t].pc = "resolve"
    /\ \E r1 \in TaskResponses("MealDefinitions.get") :
        LET resolved == _resolve_meal_id(garmin_client, tasks[t].args.meal,
                                         tasks[t].args.date, r1)
            caught == Catch(DoingPhrase(tasks[t].handler), resolved)
        IN  IF resolved.res.kind = "value"
            THEN tasks' = [tasks EXCEPT ![t].pc = "main",
                                        ![t].calls = resolved.calls,
                                        ![MealIdSlot(t)].meal_id = resolved.res.value]
            ELSE tasks' = [tasks EXCEPT ![t].pc = "done",
                                        ![t].calls = caught.calls,
                                        ![t].out = caught.out,
                                        ![t].doc = caught.doc]
    /\ UNCHANGED <<garmin_client, pc, handler, args, calls, outcome, document>>

\* The rest of the handler: its own operation and the return.
Main(t) ==
    /\ tasks[t].pc = "main"
    /\ LET T == tasks[t]
           meal_id == tasks[MealIdSlot(t)].meal_id
       IN  \E r2 \in TaskResponses(IF T.handler \in MealHandlers THEN MainOp(T.handler)
                                   ELSE OperationOf(T.handler)) :
            LET ran ==
                    IF T.handler = "log_food"
                    THEN Catch("logging food",
                            log_food_main(garmin_client, T.args.date, meal_id, T.args.food_id,
                                          T.args.serving_id, T.args.source,
                                          T.args.serving_qty, r2))
                    ELSE IF T.handler = "get_recent_foods"
                    THEN Catch("getting recent foods",
                            get_recent_foods_main(garmin_client, T.args.meal, T.args.date,
                                                  meal_id, r2))
                    ELSE IF T.handler = "remove_food_log"
                    THEN remove_food_log_run(garmin_client, T.args.date, T.args.log_ids, r2)
                    ELSE get_nutrition_log_run(garmin_client, T.args.date, r2)
            IN  tasks' = [tasks EXCEPT ![t].pc = "done",
                                       ![t].calls = T.calls \o ran.calls,
                                       ![t].out = ran.out,
                                       ![t].doc = ran.doc]
    /\ UNCHANGED <<garmin_client, pc, handler, args, calls, outcome, document>>

\* The host takes the result of invocation t; its frame is gone.
Return(t) ==
    /\ tasks[t].pc = "done"
    /\ tasks' = [tasks EXCEPT ![t] = IdleTask]
    /\ UNCHANGED <<garmin_client, pc, handler, args, calls, outcome, document>>

NextTasks ==
    \/ /\ \A t \in Tasks : tasks[t].pc = "idle"
       /\ \E client \in {"None", "client"} : configure(client)
    \/ \E t \in Tasks : Begin(t)
    \/ \E t \in Tasks : Resolve(t)
    \/ \E t \in Tasks : Main(t)
    \/ \E t \in Tasks : Return(t)

SpecTasks == Init /\ [][NextTasks]_vars

\* The response the k-th call of a task got (any, when it made fewer).
TaskResp(T, k) == IF Len(T.calls) >= k THEN T.calls[k].resp ELSE Returns(None)

\* What the handler of task T does when it runs alone, start to end, with the
\* arguments of T and the responses T got.
RunAlone(T) ==
    IF T.handler = "log_food"
    THEN log_food_run(garmin_client, T.args.date, T.args.meal, T.args.food_id,
                      T.args.serving_id, T.args.source, T.args.serving_qty,
                      TaskResp(T, 1), TaskResp(T, 2))
    ELSE IF T.handler = "get_recent_foods"
    THEN get_recent_foods_run(garmin_client, T.args.meal, T.args.date,
                              TaskResp(T, 1), TaskResp(T, 2))
    ELSE IF T.handler = "remove_food_log"
    THEN remove_food_log_run(garmin_client, T.args.date, T.args.log_ids, TaskResp(T, 1))
    ELSE get_nutrition_log_run(garmin_client, T.args.date, TaskResp(T, 1))

\* C20: whatever the interleaving of the invocations in flight, each returns
\* the text and issues the collaborator calls it would have alone, with the
\* same arguments and the same collaborator responses.
C20_InterleavingIsInvisible ==
    \A t \in Tasks :
        tasks[t].pc = "done" =>
            RunAlone(tasks[t]) =
                [calls |-> tasks[t].calls, doc |-> tasks[t].doc, out |-> tasks[t].out]

C20_Witness ==
    /\ tasks[1].pc = "done"
    /\ tasks[1].handler = "log_food"
    /\ Len(tasks[1].calls) = 2
    /\ tasks[1].calls[2].params.meal_id = 645041
    /\ tasks[1].doc /= NoDoc
    /\ tasks[2].pc = "main"
    /\ tasks[2].handler = "get_recent_foods"
    /\ tasks[2].meal_id = 645043

====
